---- MODULE Spec2Model ----
(***************************************************************************)
(* Verification model of the crawl dungeon game's visibility and           *)
(* navigation engine: the A* search of geo/graph.rs, the shadow-casting    *)
(* field of view of geo/fov.rs, the Pathfind state machine and the         *)
(* pathfind system of actor/ai.rs, and the player input system of          *)
(* actor/mod.rs.                                                           *)
(*                                                                         *)
(* Points are pairs <<x, y>>; x grows to the right and y downwards.        *)
(***************************************************************************)
EXTENDS Integers, Sequences, FiniteSets, TLC

VARIABLES
  mode,      \* which of the specifications below this behaviour belongs to
  dirs,      \* the order in which Dir::all() lists the eight directions
  aWalk,     \* A*: the set of cells for which can_walk holds
  aStart,    \* A*: start
  aGoal,     \* A*: goal
  aRes,      \* A*: what a_star returned (NoResult before the call)
  fOrigin,   \* FOV: origin
  fRange,    \* FOV: range, the semi-axes <<a, b>> of the ellipse
  fOpaque,   \* FOV: the set of points for which is_opaque holds
  fLit,      \* FOV: the set of points passed to ignite (NotRun before the call)
  ground,    \* Floor: the set of points whose tile is Tile::Ground
  pos,       \* Position of every entity
  tangible,  \* the set of entities with the Tangible component
  fov,       \* the Fov component of every entity (has is FALSE without one)
  pf,        \* the Pathfind component of every agent
  turnMode,  \* the TurnMode resource
  pc,        \* the system of the schedule that runs next
  frame,     \* the number of frames completed
  log        \* history: what the last pathfind run, or the walk so far, did

aVars == <<aWalk, aStart, aGoal, aRes>>

fVars == <<fOrigin, fRange, fOpaque, fLit>>

gVars == <<ground, pos, tangible, fov, pf, turnMode, pc, frame, log>>

vars == <<mode, dirs, aVars, fVars, gVars>>

----------------------------------------------------------------------------
(* Bounds of the model.                                                    *)

\* The A* inputs live on a GridW x GridH board with at most MaxWalls
\* unwalkable cells (can_walk is false outside the board).
GridW == 3
GridH == 2
MaxWalls == 3

\* The FOV inputs: both semi-axes of the range are in 1 .. FovMaxRange, and
\* a free-form opacity map has at most MaxOpaque opaque tiles, each within
\* OpaqueWin of the origin in both coordinates.
FovMaxRange == 3
OpaqueWin == 1
MaxOpaque == 2

\* The game: NumMonsters Pathfind agents besides the player, on a floor of
\* the size of the A* board with at most GameMaxWalls Wall tiles inside;
\* every Fov has the range <<SightRange, SightRange>>, at most MaxKeys keys
\* are pressed in one frame, and a game lasts MaxFrames frames.
NumMonsters == 2
GameMaxWalls == 1
SightRange == 2
MaxKeys == 2
MaxFrames == 2

\* The walk: a WalkW x WalkH floor with at most WalkMaxWalls Wall tiles.
WalkW == 3
WalkH == 3
WalkMaxWalls == 2

\* The number of rounds of the resolution loop of the pathfind system.
Attempts == 3

----------------------------------------------------------------------------
(* geo: points and directions.                                             *)

Abs(n) == IF n < 0 THEN -n ELSE n

PAdd(p, q) == <<p[1] + q[1], p[2] + q[2]>>

PSub(p, q) == <<p[1] - q[1], p[2] - q[2]>>

\* Point::manhattan: |x| + |y|.
Manhattan(p) == Abs(p[1]) + Abs(p[2])

\* The eight unit steps of Dir, as Dir::to_point gives them.
DirN == <<0, -1>>
DirW == <<-1, 0>>
DirS == <<0, 1>>
DirE == <<1, 0>>
DirNw == <<-1, -1>>
DirNe == <<1, -1>>
DirSw == <<-1, 1>>
DirSe == <<1, 1>>

Dirs8 == {DirN, DirW, DirS, DirE, DirNw, DirNe, DirSw, DirSe}

\* The subsets of S with at most k elements.
RECURSIVE UpTo(_, _)
UpTo(S, k) ==
  IF k = 0
    THEN {{}}
    ELSE LET smaller == UpTo(S, k - 1)
         IN smaller \cup {m \cup {x} : m \in smaller, x \in S}

Reverse(s) == [i \in 1..Len(s) |-> s[Len(s) + 1 - i]]

\* The listing order of Dir::all() is fixed by the program but its
\* definition is not part of the sources at hand; the model runs every
\* behaviour under one of these orders, chosen once at the start.
OrthoFirst == <<DirN, DirW, DirS, DirE, DirNw, DirNe, DirSw, DirSe>>
Clockwise == <<DirN, DirNe, DirE, DirSe, DirS, DirSw, DirW, DirNw>>
DirOrders == {OrthoFirst, Reverse(OrthoFirst), Clockwise, Reverse(Clockwise)}

\* Dir::all()
DirAll == dirs

----------------------------------------------------------------------------
(* geo/graph.rs: a_star over a std BinaryHeap<Node>.                       *)
(* A Node is <<f, point>>; Node's Ord compares f alone and is reversed, so *)
(* that the max-heap pops the smallest f: a <= b iff a.f >= b.f.           *)

\* Mutant: the comparison without Ordering::reverse.
NodeLeUnreversed(a, b) == a[1] <= b[1]

NodeLe(a, b) == a[1] >= b[1]

Swap(d, i, j) == [d EXCEPT ![i + 1] = d[j + 1], ![j + 1] = d[i + 1]]

\* BinaryHeap::sift_up(start, pos), positions counted from 0 (pos is hole here).
RECURSIVE SiftUp(_, _, _)
SiftUp(d, start, hole) ==
  IF hole > start
    THEN LET parent == (hole - 1) \div 2
         IN IF NodeLe(d[hole + 1], d[parent + 1])
              THEN d
              ELSE SiftUp(Swap(d, hole, parent), start, parent)
    ELSE d

\* BinaryHeap::push: append, then sift_up(0, old_len).
HeapPush(d, node) == SiftUp(Append(d, node), 0, Len(d))

\* BinaryHeap::sift_down_to_bottom(0): the hole goes down to a leaf along
\* the greater children (the right one on a tie), then sifts back up.
RECURSIVE SiftDownToBottom(_, _)
SiftDownToBottom(d, hole) ==
  LET end == Len(d)
      child == 2 * hole + 1
  IN IF child + 1 < end
       THEN LET c == IF NodeLe(d[child + 1], d[child + 2]) THEN child + 1 ELSE child
            IN SiftDownToBottom(Swap(d, hole, c), c)
       ELSE IF child = end - 1
              THEN SiftUp(Swap(d, hole, child), 0, child)
              ELSE SiftUp(d, 0, hole)

\* BinaryHeap::pop on a non-empty heap: <<popped node, remaining heap>>.
HeapPop(d) ==
  LET last == d[Len(d)]
      rest == SubSeq(d, 1, Len(d) - 1)
  IN IF rest = <<>>
       THEN <<last, rest>>
       ELSE <<d[1], SiftDownToBottom([rest EXCEPT ![1] = last], 0)>>

\* The heuristic and the distance manhattan_a_star hands to a_star.
Heuristic(n, goal) == Manhattan(PSub(n, goal))

\* Mutant: every step is charged one unit.
DistanceUnit(a, b) == 1

Distance(a, b) == Manhattan(PSub(a, b))

\* Mutant: the neighbour is relaxed without asking can_walk.
RelaxNoCanWalk(st, current, d, goal, walk) ==
  LET neighbor == PAdd(current, d)
      tentative == st.g[current] + Distance(current, neighbor)
  IN IF neighbor \in DOMAIN st.g /\ ~(tentative < st.g[neighbor])
       THEN st
       ELSE [st EXCEPT
               !.came = (neighbor :> current) @@ st.came,
               !.g = (neighbor :> tentative) @@ st.g,
               !.open = HeapPush(st.open,
                          <<tentative + Heuristic(neighbor, goal), neighbor>>),
               !.pushes = st.pushes + 1]

\* The lines 88..101 of a_star's loop body for one direction d.
Relax(st, current, d, goal, walk) ==
  LET neighbor == PAdd(current, d)
      tentative == st.g[current] + Distance(current, neighbor)
  IN IF neighbor \notin walk
       THEN st
       ELSE IF neighbor \in DOMAIN st.g /\ ~(tentative < st.g[neighbor])
              THEN st
              ELSE [st EXCEPT
                      !.came = (neighbor :> current) @@ st.came,
                      !.g = (neighbor :> tentative) @@ st.g,
                      !.open = HeapPush(st.open,
                                 <<tentative + Heuristic(neighbor, goal), neighbor>>),
                      !.pushes = st.pushes + 1]

\* for &d in &Dir::all() { ... }, from the i-th direction on.
RECURSIVE Expand(_, _, _, _, _)
Expand(st, current, i, goal, walk) ==
  IF i > Len(DirAll)
    THEN st
    ELSE Expand(Relax(st, current, DirAll[i], goal, walk), current, i + 1, goal, walk)

\* Mutant: the walk back along came_from stops one element early.
RECURSIVE BuildPathShort(_, _)
BuildPathShort(came, current) ==
  IF current \in DOMAIN came /\ came[current] \in DOMAIN came
    THEN <<current>> \o BuildPathShort(came, came[current])
    ELSE <<current>>

\* The path rebuilt from came_from, goal first.
RECURSIVE BuildPath(_, _)
BuildPath(came, current) ==
  IF current \in DOMAIN came
    THEN <<current>> \o BuildPath(came, came[current])
    ELSE <<current>>

None == [some |-> FALSE, path |-> <<>>, pushes |-> 0, cost |-> 0]

\* while let Some(Node(_, current)) = open_nodes.pop() { ... }
RECURSIVE AStarLoop(_, _, _)
AStarLoop(st, goal, walk) ==
  IF st.open = <<>>
    THEN [None EXCEPT !.pushes = st.pushes]
    ELSE LET popped == HeapPop(st.open)
             current == popped[1][2]
             st1 == [st EXCEPT !.open = popped[2]]
         IN IF current = goal
              THEN [some |-> TRUE, path |-> BuildPath(st.came, current),
                    pushes |-> st.pushes, cost |-> st.g[current]]
              ELSE AStarLoop(Expand(st1, current, 1, goal, walk), goal, walk)

\* Mutant: a_star gives up at once on a start that cannot be walked.
ManhattanAStarChecksStart(start, goal, walk) ==
  IF start \notin walk
    THEN None
    ELSE AStarLoop([open |-> <<<<Heuristic(start, goal), start>>>>,
                    came |-> <<>>,
                    g |-> (start :> 0),
                    pushes |-> 1], goal, walk)

\* manhattan_a_star(start, goal, can_walk), with can_walk = membership in
\* walk. The result records Some/None, the path, how many nodes were
\* pushed on the open heap, and the g-score the goal was popped with.
ManhattanAStar(start, goal, walk) ==
  AStarLoop([open |-> <<<<Heuristic(start, goal), start>>>>,
             came |-> <<>>,
             g |-> (start :> 0),
             pushes |-> 1], goal, walk)

----------------------------------------------------------------------------
(* geo/fov.rs: milazzo.                                                    *)

\* A Slope is a record [x, y] standing for y/x; slopes are compared by
\* cross-multiplication.
SlopeGt(s, t) == s.y * t.x > t.y * s.x

SlopeGe(s, t) == s.y * t.x >= t.y * s.x

SlopeLt(s, t) == s.y * t.x < t.y * s.x

\* The slope through a point, as the comparisons of a Slope with a Point
\* build it.
SlopeOf(p) == [x |-> p[1], y |-> p[2]]

PScale(p, k) == <<p[1] * k, p[2] * k>>

\* Tile geometry helpers (tile_fns!).
TopLeft(p) == PAdd(PScale(p, 2), <<-1, 1>>)

TopRight(p) == PAdd(PScale(p, 2), <<1, 1>>)

MiddleTop(p) == PAdd(PScale(p, 2), <<0, 1>>)

MiddleBottom(p) == PAdd(PScale(p, 2), <<0, -1>>)

InnerTopLeft(p) == PAdd(PScale(p, 4), <<-1, 1>>)

InnerBottomRight(p) == PAdd(PScale(p, 4), <<1, -1>>)

\* State::oct2map. An env is the State record: origin, range, octant and
\* the opacity predicate (as the set of opaque points).
Oct2Map(env, p) ==
  LET px == p[1]
      py == -p[2]
      ox == env.origin[1]
      oy == env.origin[2]
  IN CASE env.octant = 0 -> <<ox + px, oy - py>>
       [] env.octant = 1 -> <<ox + py, oy - px>>
       [] env.octant = 2 -> <<ox - py, oy - px>>
       [] env.octant = 3 -> <<ox - px, oy - py>>
       [] env.octant = 4 -> <<ox - px, oy + py>>
       [] env.octant = 5 -> <<ox - py, oy + px>>
       [] env.octant = 6 -> <<ox + py, oy + px>>
       [] OTHER -> <<ox + px, oy + py>>

\* State::is_opaque
IsOpaque(env, p) == Oct2Map(env, p) \in env.opaque

\* The range as recurse sees it: the axes are swapped in octants 1, 2, 5, 6.
OctRange(env) ==
  IF env.octant \in {1, 2, 5, 6}
    THEN <<env.range[2], env.range[1]>>
    ELSE env.range

\* The row of column x that a sector bound enters from the left.
EntryRow(x, slope) == ((x * 2 - 1) * slope.y + slope.x) \div (slope.x * 2)

\* sector_top_y (lines 197..296).
SectorTopY(env, x, top) ==
  IF top.x = 1
    THEN x
    ELSE LET y == EntryRow(x, top)
             p == <<x, y>>
         IN IF IsOpaque(env, p)
              THEN IF SlopeGe(top, SlopeOf(MiddleTop(p))) /\ IsOpaque(env, PAdd(p, <<0, 1>>))
                     THEN y + 1
                     ELSE y
              ELSE LET slope == IF IsOpaque(env, PAdd(p, <<1, 1>>))
                                  THEN TopRight(p)
                                  ELSE MiddleTop(p)
                   IN IF SlopeGt(top, SlopeOf(slope)) THEN y + 1 ELSE y

\* sector_bottom_y (lines 298..326).
SectorBottomY(env, x, bottom) ==
  IF bottom.y = 0
    THEN 0
    ELSE LET y == EntryRow(x, bottom)
             p == <<x, y>>
         IN IF /\ SlopeGe(bottom, SlopeOf(MiddleBottom(p)))
               /\ IsOpaque(env, p)
               /\ ~IsOpaque(env, PAdd(p, <<0, 1>>))
              THEN y + 1
              ELSE y

\* Mutant: the range test lets the boundary of the ellipse through.
OutOfRangeLax(env, x, y) ==
  LET a == OctRange(env)[1]
      b == OctRange(env)[2]
  IN x * x * b * b + y * y * a * a > a * a * b * b

\* The elliptical range test of lines 339..343, in octant coordinates:
\* TRUE when the cell is skipped.
OutOfRange(env, x, y) ==
  LET a == OctRange(env)[1]
      b == OctRange(env)[2]
  IN x * x * b * b + y * y * a * a >= a * a * b * b

\* Mutant: a clear cell on the top or bottom row of its sector is never
\* ignited.
IsVisibleInside(env, p, isOpaque, topY, bottomY, top, bottom) ==
  \/ isOpaque
  \/ (p[2] # topY /\ p[2] # bottomY)

\* is_visible (lines 356..359).
IsVisible(env, p, isOpaque, topY, bottomY, top, bottom) ==
  \/ isOpaque
  \/ /\ (p[2] # topY \/ SlopeGt(top, SlopeOf(InnerBottomRight(p))))
     /\ (p[2] # bottomY \/ SlopeLt(bottom, SlopeOf(InnerTopLeft(p))))

\* Whether the transition code of lines 368..433 is skipped for column x.
LastColumn(env, x) == x = env.range[1]

\* What the walk down a column leaves behind: the points ignited, the
\* sector bounds, was_opaque ("none", "clear" or "opaque"), and whether
\* recurse returned from inside the walk.
RowResult(lit, top, bottom, was, returned) ==
  [lit |-> lit, top |-> top, bottom |-> bottom, was |-> was, returned |-> returned]

WithLit(lit, r) == [r EXCEPT !.lit = @ \cup lit]

RECURSIVE Recurse(_, _, _, _)
RECURSIVE Columns(_, _, _, _)
RECURSIVE Rows(_, _, _, _, _, _, _, _)

\* for y in (sector_bottom_y..=sector_top_y).rev() { ... }, from row y on.
Rows(env, x, y, topY, bottomY, top, bottom, was) ==
  IF y < bottomY
    THEN RowResult({}, top, bottom, was, FALSE)
    ELSE IF OutOfRange(env, x, y)
      THEN Rows(env, x, y - 1, topY, bottomY, top, bottom, was)
      ELSE
        LET p == <<x, y>>
            isOpaque == IsOpaque(env, p)
            lit == IF IsVisible(env, p, isOpaque, topY, bottomY, top, bottom)
                     THEN {Oct2Map(env, p)}
                     ELSE {}
            now == IF isOpaque THEN "opaque" ELSE "clear"
        IN IF LastColumn(env, x)
             THEN WithLit(lit, Rows(env, x, y - 1, topY, bottomY, top, bottom, was))
             ELSE IF isOpaque /\ was = "clear"
               THEN LET slope == SlopeOf(IF IsOpaque(env, PAdd(p, <<0, 1>>))
                                           THEN TopLeft(p)
                                           ELSE MiddleTop(p))
                    IN IF SlopeGt(top, slope)
                         THEN IF y = bottomY
                                THEN RowResult(lit, top, slope, was, FALSE)
                                ELSE WithLit(lit \cup Recurse(env, x + 1, top, slope),
                                       Rows(env, x, y - 1, topY, bottomY, top, bottom, now))
                         ELSE IF y = bottomY
                                THEN RowResult(lit, top, bottom, was, TRUE)
                                ELSE WithLit(lit,
                                       Rows(env, x, y - 1, topY, bottomY, top, bottom, now))
               ELSE IF ~isOpaque /\ was = "opaque"
                 THEN LET slope == SlopeOf(IF IsOpaque(env, PAdd(p, <<1, 1>>))
                                             THEN TopRight(p)
                                             ELSE MiddleTop(p))
                      IN IF SlopeGt(slope, bottom)
                           THEN WithLit(lit,
                                  Rows(env, x, y - 1, topY, bottomY, slope, bottom, now))
                           ELSE RowResult(lit, top, bottom, was, TRUE)
                 ELSE WithLit(lit, Rows(env, x, y - 1, topY, bottomY, top, bottom, now))

\* for x in x_start..=range.x() { ... }, from column x on: the points
\* ignited.
Columns(env, x, top, bottom) ==
  IF x > OctRange(env)[1]
    THEN {}
    ELSE LET topY == SectorTopY(env, x, top)
             bottomY == SectorBottomY(env, x, bottom)
             r == Rows(env, x, topY, topY, bottomY, top, bottom, "none")
         IN IF r.returned \/ r.was # "clear"
              THEN r.lit
              ELSE r.lit \cup Columns(env, x + 1, r.top, r.bottom)

\* State::recurse(x_start, sector_top, sector_bottom): the points ignited.
Recurse(env, xStart, top, bottom) == Columns(env, xStart, top, bottom)

\* Mutant: the origin is left to the octant sweeps.
IgniteNothing(origin) == {}

\* What milazzo ignites before the octant sweeps.
IgniteOrigin(origin) == {origin}

\* milazzo(origin, range, is_opaque, ignite): the set of points ignited.
Milazzo(origin, range, opaque) ==
  IgniteOrigin(origin) \cup
  UNION {Recurse([origin |-> origin, range |-> range, opaque |-> opaque,
                  octant |-> octant],
                 1, [x |-> 1, y |-> 1], [x |-> 1, y |-> 0]) : octant \in 0 .. 7}

----------------------------------------------------------------------------
(* actor/ai.rs: the Pathfind component and its tactics.                    *)
(* A Pathfind is a record [script, goal, path]; a tactic of the script is  *)
(* a record [kind, target], target being the entity a Chase tracks.        *)

\* Option::None of a Point and of an Entity.
NoPoint == <<>>
NoEnt == -1

\* The entities: the one with the Player component, and the Pathfind agents
\* in the order the queries of the pathfind system iterate over them.
Player == 0

Wander == [kind |-> "Wander", target |-> NoEnt]

\* Chase::new()
Chase == [kind |-> "Chase", target |-> NoEnt]

\* Mutant: every tactic is run_always.
RunAlwaysAll(t) == TRUE

\* Tactic::run_always: false by default, true for Chase.
RunAlways(t) == t.kind = "Chase"

\* Pathfind::new(script)
PathfindNew(script) == [script |-> script, goal |-> NoPoint, path |-> <<>>]

Last(s) == s[Len(s)]

\* Vec::pop, which leaves an empty vector alone.
Pop(s) == IF s = <<>> THEN s ELSE SubSeq(s, 1, Len(s) - 1)

\* The walkability closure of repath and of the pathfind system: the tile
\* is Ground (false where the floor has no chunk).
IsGround(p) == p \in ground

\* Pathfind::repath
Repath(self, current) ==
  IF self.goal # NoPoint
    THEN LET r == ManhattanAStar(current, self.goal, ground)
         IN [self EXCEPT !.path = IF r.some THEN r.path ELSE <<>>]
    ELSE self

\* Mutant: the tail of next_pos without the pop of the current position.
PopNextNoPop(s1, repathed) ==
  [self |-> [s1 EXCEPT !.goal = IF s1.path = <<>> THEN NoPoint ELSE @],
   next |-> IF s1.path = <<>> THEN NoPoint ELSE Last(s1.path),
   repathed |-> repathed]

\* Mutant: the goal survives an emptied path.
PopNextKeepsGoal(s1, repathed) ==
  [self |-> [s1 EXCEPT !.path = Pop(@)],
   next |-> IF Pop(s1.path) = <<>> THEN NoPoint ELSE Last(Pop(s1.path)),
   repathed |-> repathed]

\* The tail of next_pos, on the component s1 whose cached path is valid or
\* has just been recomputed: pop the current position, return the new last
\* element, and clear the goal when the path is used up.
PopNext(s1, repathed) ==
  [self |-> [s1 EXCEPT !.path = Pop(@),
                       !.goal = IF Pop(s1.path) = <<>> THEN NoPoint ELSE @],
   next |-> IF Pop(s1.path) = <<>> THEN NoPoint ELSE Last(Pop(s1.path)),
   repathed |-> repathed]

\* Mutant: next_pos replans on every call that gets past its early return.
NextPosAlwaysRepaths(self, current) ==
  IF self.goal = NoPoint \/ self.goal = current
    THEN [self |-> [self EXCEPT !.goal = NoPoint], next |-> NoPoint, repathed |-> FALSE]
    ELSE PopNext(Repath(self, current), TRUE)

\* Mutant: next_pos without its early return.
NextPosNoEarlyReturn(self, current) ==
  IF self.path # <<>> /\ Last(self.path) = current
    THEN PopNext(self, FALSE)
    ELSE PopNext(Repath(self, current), TRUE)

\* Pathfind::next_pos: the component after the call, the returned point,
\* and whether the call ran repath.
NextPos(self, current) ==
  IF self.goal = NoPoint \/ self.goal = current
    THEN [self |-> [self EXCEPT !.goal = NoPoint], next |-> NoPoint,
          repathed |-> FALSE]
    ELSE IF self.path # <<>> /\ Last(self.path) = current
           THEN PopNext(self, FALSE)
           ELSE PopNext(Repath(self, current), TRUE)

\* Whether agent m sees point p: it is in its Fov's visible set, or the
\* agent has no Fov and is omniscient.
InSight(m, p) == ~fov[m].has \/ p \in fov[m].visible

\* Mutant: a tracked target is kept whether or not it is in sight.
CheckIfVisibleKeeps(entity, m) == IF entity # Player THEN NoEnt ELSE entity

\* check_if_visible of Chase::generate_goal; the Player entity is the only
\* one the filtered query finds.
CheckIfVisible(entity, m) ==
  IF entity # Player
    THEN NoEnt
    ELSE IF InSight(m, pos[entity]) THEN entity ELSE NoEnt

\* The tail of Chase::generate_goal, kept being what check_if_visible left
\* of the target: look for a player in sight if there is no target, and
\* yield the target's position.
ChaseAfterCheck(t, m, kept) ==
  IF kept # NoEnt
    THEN [tactic |-> [t EXCEPT !.target = kept], goal |-> pos[kept]]
    ELSE IF InSight(m, pos[Player])
           THEN [tactic |-> [t EXCEPT !.target = Player], goal |-> pos[Player]]
           ELSE [tactic |-> [t EXCEPT !.target = NoEnt], goal |-> NoPoint]

\* Chase::generate_goal: the tactic after the call and the goal it yields.
ChaseGenerateGoal(t, m) == ChaseAfterCheck(t, m, CheckIfVisible(t.target, m))

\* Wander::generate_goal: choice is the point the random draws select
\* (NoPoint when the floor has no room).
WanderGenerateGoal(t, choice) == [tactic |-> t, goal |-> choice]

\* Tactic::generate_goal
GenerateGoal(t, m, choice) ==
  IF t.kind = "Chase" THEN ChaseGenerateGoal(t, m) ELSE WanderGenerateGoal(t, choice)

\* refresh_goal keeps a record of the tactics it asks for a goal: asked is
\* the sequence of [i, goal], i the index of the tactic in the script and
\* goal what its generate_goal returned.
RECURSIVE RefreshFrom(_, _, _, _, _)

\* Mutant: the adopted goal never clears the cached path.
AdoptKeepsPath(self, asked, i, m, choice, g) ==
  IF g.goal # NoPoint
    THEN [self |-> [self EXCEPT !.script[i] = g.tactic, !.goal = g.goal],
          asked |-> Append(asked, [i |-> i, goal |-> g.goal])]
    ELSE RefreshFrom([self EXCEPT !.script[i] = g.tactic],
                     Append(asked, [i |-> i, goal |-> g.goal]), i + 1, m, choice)

\* The body of the loop of refresh_goal for tactic i once it has been asked
\* for a goal and answered g.
Adopt(self, asked, i, m, choice, g) ==
  IF g.goal # NoPoint
    THEN [self |-> [self EXCEPT !.script[i] = g.tactic,
                                !.goal = g.goal,
                                !.path = IF self.goal # g.goal THEN <<>> ELSE @],
          asked |-> Append(asked, [i |-> i, goal |-> g.goal])]
    ELSE RefreshFrom([self EXCEPT !.script[i] = g.tactic],
                     Append(asked, [i |-> i, goal |-> g.goal]), i + 1, m, choice)

\* Mutant: a script that ends without a goal leaves the goal cleared.
RefreshFromClears(self, asked, i, m, choice) ==
  IF i > Len(self.script)
    THEN [self |-> [self EXCEPT !.goal = NoPoint], asked |-> asked]
    ELSE IF self.goal # NoPoint /\ ~RunAlways(self.script[i])
           THEN RefreshFrom(self, asked, i + 1, m, choice)
           ELSE Adopt(self, asked, i, m, choice,
                      GenerateGoal(self.script[i], m, choice))

\* The loop of refresh_goal from tactic i of the script on.
RefreshFrom(self, asked, i, m, choice) ==
  IF i > Len(self.script)
    THEN [self |-> self, asked |-> asked]
    ELSE IF self.goal # NoPoint /\ ~RunAlways(self.script[i])
           THEN RefreshFrom(self, asked, i + 1, m, choice)
           ELSE Adopt(self, asked, i, m, choice,
                      GenerateGoal(self.script[i], m, choice))

\* Pathfind::refresh_goal
RefreshGoal(self, m, choice) == RefreshFrom(self, <<>>, 1, m, choice).self

\* The tactics refresh_goal asks, in the order it asks them.
AskedBy(self, m, choice) == RefreshFrom(self, <<>>, 1, m, choice).asked

\* Whether refresh_goal asks a Wander for a goal, that is, draws a point.
DrawsPoint(self, m) ==
  \E k \in DOMAIN AskedBy(self, m, NoPoint) :
    self.script[AskedBy(self, m, NoPoint)[k].i].kind = "Wander"

----------------------------------------------------------------------------
(* The A* harness: the inputs are drawn at Init, RunAStar calls a_star.    *)

Board == (0 .. GridW - 1) \X (0 .. GridH - 1)

WalkSets == {Board \ w : w \in UpTo(Board, MaxWalls)}

\* The fully walkable 5x5 grid and its corners.
Open5 == (0 .. 4) \X (0 .. 4)

Corners5 == {<<0, 0>>, <<4, 0>>, <<0, 4>>, <<4, 4>>}

NoResult == [some |-> FALSE, path |-> <<>>, pushes |-> -1, cost |-> -1]

NotRun == {<<"not run">>}

FovIdle == fOrigin = <<0, 0>> /\ fRange = <<1, 1>> /\ fOpaque = {} /\ fLit = NotRun

AStarIdle == aWalk = {} /\ aStart = <<0, 0>> /\ aGoal = <<0, 0>> /\ aRes = NoResult

GameIdle ==
  /\ ground = {} /\ pos = <<>> /\ tangible = {} /\ fov = <<>> /\ pf = <<>>
  /\ turnMode = "Waiting" /\ pc = "idle" /\ frame = 0 /\ log = <<>>

InitAStar ==
  /\ mode = "astar"
  /\ FovIdle
  /\ GameIdle
  /\ dirs \in DirOrders
  /\ \/ aWalk \in WalkSets /\ aStart \in Board /\ aGoal \in Board
     \/ aWalk = Open5 /\ aStart \in Corners5 /\ aGoal \in Corners5
  /\ aRes = NoResult

RunAStar ==
  /\ mode = "astar"
  /\ aRes = NoResult
  /\ aRes' = ManhattanAStar(aStart, aGoal, aWalk)
  /\ UNCHANGED <<mode, dirs, aWalk, aStart, aGoal, fVars, gVars>>

NextAStar == RunAStar

SpecAStar == InitAStar /\ [][NextAStar]_vars

----------------------------------------------------------------------------
(* Properties of a_star (checked under SpecAStar).                         *)

AStarDone == mode = "astar" /\ aRes # NoResult

\* The cells reachable from the cells of seen by 8-directional unit steps
\* through cells of walk.
RECURSIVE ReachFrom(_, _)
ReachFrom(seen, walk) ==
  LET nxt == seen \cup {n \in walk : \E p \in seen : PSub(n, p) \in Dirs8}
  IN IF nxt = seen THEN seen ELSE ReachFrom(nxt, walk)

Reachable(start, goal, walk) == goal \in ReachFrom({start}, walk)

Enclosed(goal, walk) == \A d \in Dirs8 : PAdd(goal, d) \notin walk

UnitSteps(path) ==
  \A i \in 1 .. Len(path) - 1 : PSub(path[i], path[i + 1]) \in Dirs8

\* The sum of the Manhattan distances between consecutive cells.
RECURSIVE PathCost(_)
PathCost(path) ==
  IF Len(path) <= 1
    THEN 0
    ELSE Distance(path[1], path[2]) + PathCost(Tail(path))

\* C8 as stated: a_star returns None exactly when the goal is unreachable
\* from start through can_walk cells, and in particular whenever every
\* neighbour of the goal is unwalkable.
C8_Original ==
  AStarDone =>
    /\ (~aRes.some) <=> ~Reachable(aStart, aGoal, aWalk)
    /\ Enclosed(aGoal, aWalk) => ~aRes.some

\* C8 (amended): a_star returns None exactly when the goal is unreachable
\* from start through can_walk cells; it returns None when every neighbour
\* of the goal is unwalkable and start is neither the goal nor one of its
\* neighbours; and it terminates, having pushed at most
\* 1 + 8 * |walkable cells| nodes.
C8_NoneIffUnreachable ==
  AStarDone =>
    /\ (~aRes.some) <=> ~Reachable(aStart, aGoal, aWalk)
    /\ (Enclosed(aGoal, aWalk) /\ aStart # aGoal /\ PSub(aStart, aGoal) \notin Dirs8)
         => ~aRes.some
    /\ aRes.pushes <= 1 + 8 * Cardinality(aWalk)

\* A run that returned None for a walkable goal whose neighbours are all
\* unwalkable, from a start elsewhere.
C8_Witness ==
  /\ AStarDone
  /\ ~aRes.some
  /\ aGoal \in aWalk
  /\ Enclosed(aGoal, aWalk)
  /\ aStart # aGoal
  /\ PSub(aStart, aGoal) \notin Dirs8

\* C9: a returned path is non-empty, starts with goal, ends with start,
\* advances by one of the 8 unit steps between consecutive elements, has
\* only can_walk cells apart from start, and is [start] when start = goal.
C9_PathShape ==
  (AStarDone /\ aRes.some) =>
    LET path == aRes.path
    IN /\ Len(path) >= 1
       /\ path[1] = aGoal
       /\ path[Len(path)] = aStart
       /\ UnitSteps(path)
       /\ \A i \in 1 .. Len(path) - 1 : path[i] \in aWalk
       /\ aStart = aGoal => path = <<aStart>>

\* A path of several steps from an unwalkable start around a wall.
C9_Witness ==
  /\ AStarDone
  /\ aRes.some
  /\ Len(aRes.path) >= 3
  /\ aStart \notin aWalk
  /\ aWalk # Board \ {aStart}

Run5x5 ==
  AStarDone /\ aWalk = Open5 /\ aStart = <<0, 0>> /\ aGoal = <<4, 4>>

\* C10 as stated: on the open 5x5 grid from (0,0) to (4,4) the path has
\* exactly 4 steps (5 cells), all of them diagonal.
C10_Original ==
  Run5x5 =>
    /\ Len(aRes.path) = 5
    /\ \A i \in 1 .. Len(aRes.path) - 1 :
         PSub(aRes.path[i], aRes.path[i + 1]) = DirSe

\* C10 (amended): on the open 5x5 grid from (0,0) to (4,4) manhattan_a_star
\* returns a goal-first path of 4 to 8 unit steps whose step costs (1 per
\* orthogonal, 2 per diagonal step) add up to 8; how many of the steps are
\* diagonal depends on the order of Dir::all().
C10_CornerToCorner ==
  Run5x5 =>
    /\ aRes.some
    /\ aRes.path[1] = <<4, 4>>
    /\ aRes.path[Len(aRes.path)] = <<0, 0>>
    /\ UnitSteps(aRes.path)
    /\ Len(aRes.path) \in 5 .. 9
    /\ PathCost(aRes.path) = 8

\* The 5x5 run that did return the 4-step diagonal.
C10_Witness == Run5x5 /\ Len(aRes.path) = 5

IsDiagonal(d) == d[1] # 0 /\ d[2] # 0

\* The steps of a path, each counted 1 if orthogonal and diag if diagonal.
RECURSIVE Charged(_, _)
Charged(path, diag) ==
  IF Len(path) <= 1
    THEN 0
    ELSE (IF IsDiagonal(PSub(path[1], path[2])) THEN diag ELSE 1)
           + Charged(Tail(path), diag)

\* C11 as stated: a diagonal unit step is charged 1 unit like an orthogonal
\* one, so the g-score of the goal is the number of steps of the path (and
\* the Manhattan heuristic of the start may exceed it).
C11_Original ==
  (AStarDone /\ aRes.some) => aRes.cost = Charged(aRes.path, 1)

\* C11 (amended): manhattan_a_star charges a step the Manhattan distance
\* between its two cells, 1 for an orthogonal and 2 for a diagonal step, and
\* the Manhattan heuristic of a cell of the returned path never exceeds the
\* cost charged for the rest of the path to the goal.
C11_DiagonalCostsTwo ==
  (AStarDone /\ aRes.some) =>
    /\ aRes.cost = Charged(aRes.path, 2)
    /\ \A i \in 1 .. Len(aRes.path) :
         Heuristic(aRes.path[i], aGoal) <= Charged(SubSeq(aRes.path, 1, i), 2)

\* A returned path with a diagonal step.
C11_Witness ==
  /\ AStarDone
  /\ aRes.some
  /\ \E i \in 1 .. Len(aRes.path) - 1 :
       IsDiagonal(PSub(aRes.path[i], aRes.path[i + 1]))

\* C26: the result of a_star does not depend on can_walk(start): it is the
\* result for the walkable set with the start cell added and with the start
\* cell removed; and from an unwalkable start a path is found whenever the
\* goal is reachable through walkable cells from a walkable neighbour of
\* the start.
C26_StartIgnored ==
  AStarDone =>
    /\ aRes = ManhattanAStar(aStart, aGoal, aWalk \cup {aStart})
    /\ aRes = ManhattanAStar(aStart, aGoal, aWalk \ {aStart})
    /\ (/\ aStart \notin aWalk
        /\ \E d \in Dirs8 :
             /\ PAdd(aStart, d) \in aWalk
             /\ Reachable(PAdd(aStart, d), aGoal, aWalk))
         => aRes.some

\* A path of cost 3 or more found from an unwalkable start.
C26_Witness ==
  /\ AStarDone
  /\ aStart \notin aWalk
  /\ aRes.some
  /\ aRes.cost >= 3

\* The least element of a nonempty set of numbers.
Least(S) == CHOOSE m \in S : \A x \in S : m <= x

\* One round of relaxation of the costs d (a function from the cells
\* reached so far to the least cost found so far) over the unit steps into
\* cells of walk, every step charged the Manhattan distance between its
\* two cells; repeated until nothing changes.
RECURSIVE Cheapest(_, _)
Cheapest(d, walk) ==
  LET into(n) == {d[p] + Manhattan(PSub(p, n)) :
                    p \in {q \in DOMAIN d : PSub(n, q) \in Dirs8}}
      cells == DOMAIN d \cup {n \in walk : into(n) # {}}
      nxt == [n \in cells |->
                Least((IF n \in DOMAIN d THEN {d[n]} ELSE {}) \cup
                      (IF n \in walk THEN into(n) ELSE {}))]
  IN IF nxt = d THEN d ELSE Cheapest(nxt, walk)

\* The least cost of an 8-connected path from start whose cells after
\* start are in walk, for every cell such a path reaches.
MinCost(start, walk) == Cheapest([n \in {start} |-> 0], walk)

\* C32: the path manhattan_a_star returns, its steps charged 1 if
\* orthogonal and 2 if diagonal, costs as little as any 8-connected
\* walkable path from start to goal.
C32_CheapestPath ==
  (AStarDone /\ aRes.some) =>
    /\ aGoal \in DOMAIN MinCost(aStart, aWalk)
    /\ Charged(aRes.path, 2) = MinCost(aStart, aWalk)[aGoal]
    /\ PathCost(aRes.path) = MinCost(aStart, aWalk)[aGoal]

\* The cheapest path goes around a wall and costs more than the Manhattan
\* distance from start to goal.
C32_Witness ==
  /\ AStarDone
  /\ aRes.some
  /\ Charged(aRes.path, 2) > Manhattan(PSub(aStart, aGoal))
  /\ Len(aRes.path) >= 3

----------------------------------------------------------------------------
(* The FOV harness: the inputs are drawn at Init, RunMilazzo calls         *)
(* milazzo.                                                                *)

FovOrigins == {<<0, 0>>, <<1, -2>>}

FovRanges == (1 .. FovMaxRange) \X (1 .. FovMaxRange)

\* Offsets from the origin that is_opaque can be asked about.
FovSpan == (-(FovMaxRange + 1)) .. (FovMaxRange + 1)

NearOffsets == ((-OpaqueWin) .. OpaqueWin) \X ((-OpaqueWin) .. OpaqueWin)

\* Up to MaxOpaque opaque tiles near the origin, or one opaque tile
\* anywhere with at most one more near the origin.
FreeMaps ==
  UpTo(NearOffsets, MaxOpaque) \cup
  {n \cup {f} : n \in UpTo(NearOffsets, 1), f \in FovSpan \X FovSpan}

\* Signed coordinate of offset q along a wall's normal: axis 1 is x (a
\* column of opaque tiles), axis 2 is y (a row); sign is 1 or -1.
Along(q, axis, sign) == q[axis] * sign

WallLine(axis, sign, d) == {q \in FovSpan \X FovSpan : Along(q, axis, sign) = d}

WallKinds == {1, 2} \X {1, -1} \X (1 .. FovMaxRange)

\* A full row or column of opaque tiles, with at most one more opaque tile
\* behind it.
WallMaps ==
  {WallLine(w[1], w[2], w[3]) : w \in WallKinds} \cup
  UNION {{WallLine(w[1], w[2], w[3]) \cup {q} :
            q \in {n \in NearOffsets : Along(n, w[1], w[2]) > w[3]}} :
         w \in WallKinds}

Translate(m, origin) == {PAdd(origin, q) : q \in m}

InitFov ==
  /\ mode = "fov"
  /\ dirs = OrthoFirst
  /\ AStarIdle
  /\ GameIdle
  /\ fOrigin \in FovOrigins
  /\ fRange \in FovRanges
  /\ \E m \in FreeMaps \cup WallMaps : fOpaque = Translate(m, fOrigin)
  /\ fLit = NotRun

RunMilazzo ==
  /\ mode = "fov"
  /\ fLit = NotRun
  /\ fLit' = Milazzo(fOrigin, fRange, fOpaque)
  /\ UNCHANGED <<mode, dirs, aVars, fOrigin, fRange, fOpaque, gVars>>

NextFov == RunMilazzo

SpecFov == InitFov /\ [][NextFov]_vars

----------------------------------------------------------------------------
(* Properties of milazzo (checked under SpecFov).                          *)

FovDone == mode = "fov" /\ fLit # NotRun

\* The strict elliptical range test on an offset from the origin.
InEllipse(q, range) ==
  q[1] * q[1] * range[2] * range[2] + q[2] * q[2] * range[1] * range[1]
    < range[1] * range[1] * range[2] * range[2]

EllipseAt(origin, range) ==
  {PAdd(origin, q) : q \in {o \in FovSpan \X FovSpan : InEllipse(o, range)}}

\* C4: with no opaque tile inside the range, the points ignited are
\* exactly the origin and the grid points strictly inside the ellipse, for
\* every range <<a, b>> with a, b >= 1.
C4_OpenField ==
  (FovDone /\ fOpaque \cap (EllipseAt(fOrigin, fRange) \cup {fOrigin}) = {}) =>
    fLit = {fOrigin} \cup EllipseAt(fOrigin, fRange)

\* The same restricted to ranges whose x semi-axis is not the shorter one.
OpenFieldWide ==
  (/\ FovDone
   /\ fRange[1] >= fRange[2]
   /\ fOpaque \cap (EllipseAt(fOrigin, fRange) \cup {fOrigin}) = {}) =>
    fLit = {fOrigin} \cup EllipseAt(fOrigin, fRange)

\* The opacity map is the wall w = <<axis, sign, d>> with nothing opaque in
\* front of it, and the wall crosses the range ellipse.
IsWall(w) ==
  /\ Translate(WallLine(w[1], w[2], w[3]), fOrigin) \subseteq fOpaque
  /\ \A p \in fOpaque : Along(PSub(p, fOrigin), w[1], w[2]) >= w[3]
  /\ w[3] < fRange[w[1]]

\* The wall tile straight ahead of the origin.
Facing(w) ==
  PAdd(fOrigin, IF w[1] = 1 THEN <<w[2] * w[3], 0>> ELSE <<0, w[2] * w[3]>>)

\* C5: when a full row or column of opaque tiles bisects the visible area,
\* no point strictly behind the wall is ignited and the wall tile directly
\* facing the origin is ignited.
C5_WallBlocks ==
  FovDone =>
    \A w \in WallKinds :
      IsWall(w) =>
        /\ \A p \in fLit : Along(PSub(p, fOrigin), w[1], w[2]) <= w[3]
        /\ Facing(w) \in fLit

\* The same restricted to ranges whose x semi-axis is not the shorter one.
WallBlocksWide ==
  (FovDone /\ fRange[1] >= fRange[2]) =>
    \A w \in WallKinds :
      IsWall(w) =>
        /\ \A p \in fLit : Along(PSub(p, fOrigin), w[1], w[2]) <= w[3]
        /\ Facing(w) \in fLit

\* C6: milazzo ignites the origin, whatever the range and the opacity map,
\* the origin's own opacity included.
C6_OriginIgnited == FovDone => fOrigin \in fLit

\* A run from an opaque origin.
C6_Witness == FovDone /\ fOrigin \in fOpaque /\ fOrigin # <<0, 0>>

\* C7: every ignited point other than the origin passes the strict range
\* test dx^2 b^2 + dy^2 a^2 < (ab)^2 in map coordinates.
C7_InsideEllipse ==
  FovDone =>
    \A p \in fLit \ {fOrigin} : InEllipse(PSub(p, fOrigin), fRange)

\* A run with unequal semi-axes and an opaque tile in range that lit
\* points in the octants with swapped axes.
C7_Witness ==
  /\ FovDone
  /\ fRange[1] # fRange[2]
  /\ \E p \in fOpaque \cap fLit : p # fOrigin
  /\ \E p \in fLit : Abs(p[2] - fOrigin[2]) > Abs(p[1] - fOrigin[1])

Diagonals == {DirNw, DirNe, DirSw, DirSe}

\* The diagonal neighbour of the origin towards d is clear and in range,
\* and the two orthogonal neighbours next to it are opaque.
Pinched(d) ==
  /\ PAdd(fOrigin, <<d[1], 0>>) \in fOpaque
  /\ PAdd(fOrigin, <<0, d[2]>>) \in fOpaque
  /\ PAdd(fOrigin, d) \notin fOpaque
  /\ InEllipse(d, fRange)

\* C35: a clear diagonal neighbour of the origin, in range, is ignited
\* although the two orthogonal neighbours of the origin next to it are
\* opaque; this holds for each of the 4 diagonal neighbours.
C35_CornerLit ==
  FovDone => \A d \in Diagonals : Pinched(d) => PAdd(fOrigin, d) \in fLit

\* A run with the pinched corner to the south-west and unequal semi-axes.
C35_Witness ==
  /\ FovDone
  /\ Pinched(DirSw)
  /\ fRange[1] < fRange[2]
  /\ PAdd(fOrigin, DirSw) \in fLit

----------------------------------------------------------------------------
(* The room harness: milazzo is called from inside a rectangular room.  A  *)
(* room is r = <<x1, x2, y1, y2>>, the offsets from the origin of its 4    *)
(* walls, with x1 < 0 < x2 and y1 < 0 < y2; its boundary ring is opaque,   *)
(* its interior transparent, and outside it nothing is opaque, or one tile *)
(* is, or every tile is.  The semi-axes of the range go up to              *)
(* RoomMaxRange.                                                           *)

RoomMaxRange == 4

RoomRanges == (1 .. RoomMaxRange) \X (1 .. RoomMaxRange)

RoomSpan == (-(RoomMaxRange + 1)) .. (RoomMaxRange + 1)

RoomRects ==
  ((-RoomMaxRange) .. -1) \X (1 .. RoomMaxRange) \X
  ((-RoomMaxRange) .. -1) \X (1 .. RoomMaxRange)

RoomCells(r) == (r[1] .. r[2]) \X (r[3] .. r[4])

RoomInterior(r) == ((r[1] + 1) .. (r[2] - 1)) \X ((r[3] + 1) .. (r[4] - 1))

RoomRing(r) == RoomCells(r) \ RoomInterior(r)

RoomCorners(r) == {r[1], r[2]} \X {r[3], r[4]}

Outside(r) == (RoomSpan \X RoomSpan) \ RoomCells(r)

\* The strict range test of the ellipse with semi-axes range on an offset.
WithinRange(q, range) ==
  q[1] * q[1] * range[2] * range[2] + q[2] * q[2] * range[1] * range[1]
    < range[1] * range[1] * range[2] * range[2]

RoomMaps(r) ==
  {RoomRing(r), RoomRing(r) \cup Outside(r)} \cup
  {RoomRing(r) \cup {q} : q \in Outside(r)}

InitRoom ==
  /\ mode = "fov"
  /\ dirs = OrthoFirst
  /\ AStarIdle
  /\ GameIdle
  /\ fOrigin \in FovOrigins
  /\ fRange \in RoomRanges
  /\ \E r \in RoomRects :
       /\ \A q \in RoomCells(r) : WithinRange(q, fRange)
       /\ \E m \in RoomMaps(r) : fOpaque = Translate(m, fOrigin)
  /\ fLit = NotRun

NextRoom == RunMilazzo

SpecRoom == InitRoom /\ [][NextRoom]_vars

\* The room r stands around the origin of this run, inside the range.
RoomAt(r) ==
  /\ Translate(RoomRing(r), fOrigin) \subseteq fOpaque
  /\ Translate(RoomInterior(r), fOrigin) \cap fOpaque = {}
  /\ \A q \in RoomCells(r) : WithinRange(q, fRange)

\* C34: from strictly inside a room that lies strictly inside the range
\* ellipse, milazzo ignites every interior cell and every cell of the
\* boundary ring, the 4 corners included, and no cell outside the room's
\* rectangle, whatever is opaque outside.
C34_RoomLit ==
  FovDone =>
    \A r \in RoomRects :
      RoomAt(r) => fLit = Translate(RoomCells(r), fOrigin)

\* The same restricted to ranges whose x semi-axis is not the shorter one.
RoomLitWide ==
  (FovDone /\ fRange[1] >= fRange[2]) =>
    \A r \in RoomRects :
      RoomAt(r) => fLit = Translate(RoomCells(r), fOrigin)

\* The 8 symmetries of the square: s = <<swap, sx, sy>> exchanges the two
\* coordinates if swap holds and then multiplies them by the signs sx, sy.
Syms == BOOLEAN \X {1, -1} \X {1, -1}

SymOf(s, q) ==
  LET r == IF s[1] THEN <<q[2], q[1]>> ELSE q
  IN <<s[2] * r[1], s[3] * r[2]>>

\* The image of a set of points under the symmetry s about the origin of
\* the field of view.
ImageOf(s, points) == {PAdd(fOrigin, SymOf(s, PSub(p, fOrigin))) : p \in points}

\* The range for the image: the axes are exchanged when s exchanges x, y.
RangeUnder(s, range) == IF s[1] THEN <<range[2], range[1]>> ELSE range

\* Whether milazzo commutes with s on the inputs of this run.
Commutes(s) ==
  Milazzo(fOrigin, RangeUnder(s, fRange), ImageOf(s, fOpaque)) = ImageOf(s, fLit)

\* C33: milazzo commutes with each of the 8 symmetries of the square about
\* the origin, the range axes being exchanged with the coordinates.
C33_Symmetric == FovDone => \A s \in Syms : Commutes(s)

\* The same for the 4 symmetries that keep the axes, and for all 8 when
\* the two semi-axes are equal.
SymmetricKeepingAxes ==
  FovDone => \A s \in Syms : (~s[1] \/ fRange[1] = fRange[2]) => Commutes(s)

----------------------------------------------------------------------------
(* The game: one frame of the schedule of main.rs runs player_movement,    *)
(* process_visibility, pathfind and end_turn, in this order.  The floor is *)
(* a GridW x GridH room with up to GameMaxWalls Wall tiles inside and Void *)
(* around it.  The Oriented component is written by player_movement and    *)
(* read by the renderer alone; it is not part of the state.                *)

Monsters == 1 .. NumMonsters

Ents == {Player} \cup Monsters

NoFov == [has |-> FALSE, range |-> <<0, 0>>, visible |-> {}, seen |-> {}]

\* The Fov every actor of main.rs is created with.
NewFov == [has |-> TRUE, range |-> <<SightRange, SightRange>>,
           visible |-> {}, seen |-> {}]

\* Floor tiles of the floor whose Ground tiles are g.  The floor has a chunk
\* wherever an actor can step or look, so that Floor::chunk finds one.
TileOn(g, p) ==
  IF p \in g THEN "Ground" ELSE IF p \in Board THEN "Wall" ELSE "Void"

TileAt(p) == TileOn(ground, p)

Floors == {Board \ w : w \in UpTo(Board, GameMaxWalls)}

\* The closure process_visibility passes as is_opaque, on the points
\* milazzo can ask about.
OpaqueNear(g, origin, range) ==
  LET r == (IF range[1] > range[2] THEN range[1] ELSE range[2]) + 1
  IN {p \in ((origin[1] - r) .. (origin[1] + r)) \X
            ((origin[2] - r) .. (origin[2] + r)) : TileOn(g, p) # "Ground"}

\* What the milazzo call of process_visibility ignites, tabulated for the
\* floors and the origins of the game; every Fov of the game has the range
\* <<SightRange, SightRange>>.
Sight ==
  [g \in Floors, origin \in Board |->
     Milazzo(origin, <<SightRange, SightRange>>,
             OpaqueNear(g, origin, <<SightRange, SightRange>>))]

\* Rect::points of the half-open rectangle between two corners.
RectPoints(r) == (r[1][1] .. r[2][1] - 1) \X (r[1][2] .. r[2][2] - 1)

\* Floor::rooms(): the floor has one room, the rectangle between the two
\* corner tiles of the board.
Rooms == {<<<<0, 0>>, <<GridW - 1, GridH - 1>>>>}

\* The points Wander can draw: a point of a room.
RoomPoints == UNION {RectPoints(r) : r \in Rooms}

\* dir_char of player_movement.
DirChar(d) ==
  CASE d = DirN -> "w" [] d = DirW -> "a" [] d = DirS -> "s" [] d = DirE -> "d"
    [] d = DirNw -> "q" [] d = DirNe -> "e" [] d = DirSw -> "z" [] d = DirSe -> "c"

KeyChars == {"w", "a", "s", "d", "q", "e", "z", "c", "x"}

\* The history of a system that records nothing.
NoLog == [ran |-> FALSE]

\* Mutant: walking into a Wall or Void tile uses up the turn.
RECURSIVE MoveFromBump(_, _, _, _)
MoveFromBump(st, i, keys, shifted) ==
  IF i > Len(DirAll)
    THEN IF ~shifted /\ "x" \in keys THEN [st EXCEPT !.mode = "Running"] ELSE st
    ELSE IF DirChar(DirAll[i]) \in keys
           THEN IF ~shifted
                  THEN IF TileAt(PAdd(st.pos, DirAll[i])) \in {"Wall", "Void"}
                         THEN [st EXCEPT !.mode = "Running"]
                         ELSE [pos |-> PAdd(st.pos, DirAll[i]), mode |-> "Running"]
                  ELSE st
           ELSE MoveFromBump(st, i + 1, keys, shifted)

\* The loop of player_movement over Dir::all() from direction i on, and
\* the wait key after it; st is [pos, mode].
RECURSIVE MoveFrom(_, _, _, _)
MoveFrom(st, i, keys, shifted) ==
  IF i > Len(DirAll)
    THEN IF ~shifted /\ "x" \in keys THEN [st EXCEPT !.mode = "Running"] ELSE st
    ELSE LET d == DirAll[i]
         IN IF DirChar(d) \in keys
              THEN IF ~shifted
                     THEN LET new_pos == PAdd(st.pos, d)
                          IN IF TileAt(new_pos) \in {"Wall", "Void"}
                               THEN MoveFrom(st, i + 1, keys, shifted)
                               ELSE [pos |-> new_pos, mode |-> "Running"]
                     ELSE st
              ELSE MoveFrom(st, i + 1, keys, shifted)

\* System player_movement, on the keys and modifiers start_frame read.
\* The history records whether the wait key and shift were down.
PlayerMovement ==
  /\ mode = "game"
  /\ pc = "player_movement"
  /\ frame < MaxFrames
  /\ \E keys \in UpTo(KeyChars, MaxKeys), shifted \in BOOLEAN :
       LET st == MoveFrom([pos |-> pos[Player], mode |-> turnMode], 1, keys, shifted)
       IN /\ pos' = [pos EXCEPT ![Player] = st.pos]
          /\ turnMode' = st.mode
          /\ log' = [ran |-> FALSE, wait |-> "x" \in keys, shifted |-> shifted]
  /\ pc' = "process_visibility"
  /\ UNCHANGED <<mode, dirs, aVars, fVars, ground, tangible, fov, pf, frame>>

\* Mutant: process_visibility clears seen as it clears visible.
ProcessVisibilityForgets ==
  /\ mode = "game"
  /\ pc = "process_visibility"
  /\ fov' = [e \in Ents |->
               IF fov[e].has
                 THEN [fov[e] EXCEPT !.visible = Sight[ground, pos[e]],
                                     !.seen = Sight[ground, pos[e]]]
                 ELSE fov[e]]
  /\ pc' = "pathfind"
  /\ log' = NoLog
  /\ UNCHANGED <<mode, dirs, aVars, fVars, ground, pos, tangible, pf, turnMode, frame>>

\* System process_visibility, for every entity with a Fov.
ProcessVisibility ==
  /\ mode = "game"
  /\ pc = "process_visibility"
  /\ fov' = [e \in Ents |->
               IF fov[e].has
                 THEN LET lit == Sight[ground, pos[e]]
                      IN [fov[e] EXCEPT !.visible = lit, !.seen = @ \cup lit]
                 ELSE fov[e]]
  /\ pc' = "pathfind"
  /\ log' = NoLog
  /\ UNCHANGED <<mode, dirs, aVars, fVars, ground, pos, tangible, pf, turnMode, frame>>

\* Mutant: the resolution loop without the occupancy test.
RECURSIVE ResolveNoOccupancy(_, _, _, _, _)
ResolveNoOccupancy(st, m, p, is_walkable, n) ==
  IF n = 0
    THEN st
    ELSE IF is_walkable
           THEN [st EXCEPT !.occupied = IF m \in tangible
                                          THEN (@ \ {st.pos}) \cup {p} ELSE @,
                           !.pos = p,
                           !.attempts = @ + 1]
           ELSE ResolveNoOccupancy([st EXCEPT !.self = Repath(@, st.pos),
                                              !.attempts = @ + 1,
                                              !.replans = @ + 1],
                                   m, p, is_walkable, n - 1)

\* Mutant: after a failed first round the move is made whatever the
\* occupancy set holds.
ResolveSecondForced(st, m, p, is_walkable, n) ==
  IF n = 0
    THEN st
    ELSE IF is_walkable /\ p \notin st.occupied
           THEN [st EXCEPT !.occupied = IF m \in tangible
                                          THEN (@ \ {st.pos}) \cup {p} ELSE @,
                           !.pos = p,
                           !.attempts = @ + 1]
           ELSE ResolveNoOccupancy([st EXCEPT !.self = Repath(@, st.pos),
                                              !.attempts = @ + 1,
                                              !.replans = @ + 1],
                                   m, p, is_walkable, n - 1)

\* Mutant: a move leaves the occupancy set as it was.
RECURSIVE ResolveNoInsert(_, _, _, _, _)
ResolveNoInsert(st, m, p, is_walkable, n) ==
  IF n = 0
    THEN st
    ELSE IF is_walkable /\ p \notin st.occupied
           THEN [st EXCEPT !.pos = p, !.attempts = @ + 1]
           ELSE ResolveNoInsert([st EXCEPT !.self = Repath(@, st.pos),
                                           !.attempts = @ + 1,
                                           !.replans = @ + 1],
                                m, p, is_walkable, n - 1)

\* Mutant: a failed round of the resolution loop does not replan.
RECURSIVE ResolveNoRepath(_, _, _, _, _)
ResolveNoRepath(st, m, p, is_walkable, n) ==
  IF n = 0
    THEN st
    ELSE IF is_walkable /\ p \notin st.occupied
           THEN [st EXCEPT !.occupied = IF m \in tangible
                                          THEN (@ \ {st.pos}) \cup {p} ELSE @,
                           !.pos = p,
                           !.attempts = @ + 1]
           ELSE ResolveNoRepath([st EXCEPT !.attempts = @ + 1,
                                           !.replans = @ + 1],
                                m, p, is_walkable, n - 1)

\* Mutant: the resolution loop with one round more.
RECURSIVE ResolveExtraRound(_, _, _, _, _)
ResolveExtraRound(st, m, p, is_walkable, n) ==
  IF n = -1
    THEN st
    ELSE IF is_walkable /\ p \notin st.occupied
           THEN [st EXCEPT !.occupied = IF m \in tangible
                                          THEN (@ \ {st.pos}) \cup {p} ELSE @,
                           !.pos = p,
                           !.attempts = @ + 1]
           ELSE ResolveExtraRound([st EXCEPT !.self = Repath(@, st.pos),
                                             !.attempts = @ + 1,
                                             !.replans = @ + 1],
                                  m, p, is_walkable, n - 1)

\* The loop `for _ in 0..3` of the pathfind system with n rounds to go, for
\* agent m and candidate p; st is [pos, self, occupied, attempts, replans].
RECURSIVE Resolve(_, _, _, _, _)
Resolve(st, m, p, is_walkable, n) ==
  IF n = 0
    THEN st
    ELSE IF is_walkable /\ p \notin st.occupied
           THEN [st EXCEPT !.occupied = IF m \in tangible
                                          THEN (@ \ {st.pos}) \cup {p} ELSE @,
                           !.pos = p,
                           !.attempts = @ + 1]
           ELSE Resolve([st EXCEPT !.self = Repath(@, st.pos),
                                   !.attempts = @ + 1,
                                   !.replans = @ + 1],
                        m, p, is_walkable, n - 1)

\* What the slot of agent m leaves behind: st is the outcome of its
\* resolution loop, np what its next_pos call returned.
Settle(w, m, np, st) ==
  [pos |-> [w.pos EXCEPT ![m] = st.pos],
   pf |-> [w.pf EXCEPT ![m] = st.self],
   occupied |-> st.occupied,
   log |-> [w.log EXCEPT ![m] = [from |-> w.pos[m], cand |-> np.next,
                                 repathed |-> np.repathed,
                                 attempts |-> st.attempts,
                                 replans |-> st.replans,
                                 occIn |-> w.occupied,
                                 occOut |-> st.occupied]]]

\* The rest of the body of the movement loop for agent m after its
\* next_pos call returned np.
TryMove(w, m, np, st0) ==
  Settle(w, m, np,
         IF np.next = NoPoint
           THEN st0
           ELSE Resolve(st0, m, np.next, IsGround(np.next), Attempts))

StartMove(w, m, np) ==
  TryMove(w, m, np, [pos |-> w.pos[m], self |-> np.self, occupied |-> w.occupied,
                     attempts |-> 0, replans |-> 0])

\* The body of the movement loop for agent m; w is [pos, pf, occupied, log].
StepAgent(w, m) == StartMove(w, m, NextPos(w.pf[m], w.pos[m]))

\* The movement loop from agent m on.
RECURSIVE StepFrom(_, _)
StepFrom(w, m) ==
  IF m > NumMonsters THEN w ELSE StepFrom(StepAgent(w, m), m + 1)

Untouched ==
  [from |-> NoPoint, cand |-> NoPoint, repathed |-> FALSE, attempts |-> 0,
   replans |-> 0, occIn |-> {}, occOut |-> {}]

\* The goal-refresh phase of pathfind: every agent's component after its
\* refresh_goal call, choice being the points the Wanders draw.
Refreshed(choice) ==
  [m \in Monsters |->
     RefreshGoal(pf[m], m, IF m \in DOMAIN choice THEN choice[m] ELSE NoPoint)]

\* The tactics every agent's refresh_goal call asked.
Asked(choice) ==
  [m \in Monsters |->
     AskedBy(pf[m], m, IF m \in DOMAIN choice THEN choice[m] ELSE NoPoint)]

\* The occupancy set of pathfind: the position of every entity.
Occupied == {pos[e] : e \in Ents}

\* The movement phase of pathfind.
Moved(refreshed) ==
  StepFrom([pos |-> pos, pf |-> refreshed, occupied |-> Occupied,
            log |-> [m \in Monsters |-> Untouched]], 1)

\* The state pathfind leaves.  The history records the components the
\* system found (before) and left after the refresh phase (refreshed, and
\* goals, their goals), the tactics each refresh_goal asked, the occupancy
\* set the movement phase started from and, per agent, the position it
\* had, the candidate next_pos returned, whether next_pos ran repath, and
\* its numbers of attempts and of forced replans.
Outcome(refreshed, asked, w) ==
  /\ pos' = w.pos
  /\ pf' = w.pf
  /\ log' = [ran |-> TRUE, before |-> pf, refreshed |-> refreshed,
             asked |-> asked,
             goals |-> [m \in Monsters |-> refreshed[m].goal],
             occupied |-> Occupied, agents |-> w.log]


\* Mutant: the movement phase runs on the components as they were before
\* the goal-refresh phase.
TwoPhasesSwapped(refreshed, asked) == Outcome(refreshed, asked, Moved(pf))

\* The two phases of pathfind: the movement phase starts from the
\* components the goal-refresh phase left.
TwoPhases(refreshed, asked) == Outcome(refreshed, asked, Moved(refreshed))

\* Mutant: pathfind without the test of the turn mode.
PathfindUngated ==
  /\ mode = "game"
  /\ pc = "pathfind"
  /\ \E choice \in [{m \in Monsters : DrawsPoint(pf[m], m)} -> RoomPoints] :
       TwoPhases(Refreshed(choice), Asked(choice))
  /\ pc' = "end_turn"
  /\ UNCHANGED <<mode, dirs, aVars, fVars, ground, tangible, fov, turnMode, frame>>

\* System pathfind.
Pathfind ==
  /\ mode = "game"
  /\ pc = "pathfind"
  /\ IF turnMode # "Running"
       THEN /\ log' = NoLog
            /\ UNCHANGED <<pos, pf>>
       ELSE \E choice \in [{m \in Monsters : DrawsPoint(pf[m], m)} -> RoomPoints] :
              TwoPhases(Refreshed(choice), Asked(choice))
  /\ pc' = "end_turn"
  /\ UNCHANGED <<mode, dirs, aVars, fVars, ground, tangible, fov, turnMode, frame>>

\* System end_turn.
EndTurn ==
  /\ mode = "game"
  /\ pc = "end_turn"
  /\ turnMode' = "Waiting"
  /\ pc' = "player_movement"
  /\ frame' = frame + 1
  /\ log' = NoLog
  /\ UNCHANGED <<mode, dirs, aVars, fVars, ground, pos, tangible, fov, pf>>

\* The kinds of agents: their script, and whether they are tangible and
\* have a Fov.
Idler == [script |-> <<>>, tangible |-> TRUE, sighted |-> TRUE]
Wanderer == [script |-> <<Wander>>, tangible |-> TRUE, sighted |-> TRUE]
Chaser == [script |-> <<Chase>>, tangible |-> TRUE, sighted |-> TRUE]
Hunter == [script |-> <<Chase, Wander>>, tangible |-> TRUE, sighted |-> TRUE]
Seer == [script |-> <<Chase>>, tangible |-> TRUE, sighted |-> FALSE]
Ghost == [script |-> <<Wander>>, tangible |-> FALSE, sighted |-> TRUE]

\* The casts of a game; agent m is of kind cast[m], the cast being repeated
\* when there are more agents than it has kinds.
Casts ==
  {<<Chaser, Chaser>>, <<Hunter, Wanderer>>, <<Ghost, Seer>>,
   <<Wanderer, Idler>>, <<Seer, Ghost>>}

KindOf(cast, m) == cast[((m - 1) % Len(cast)) + 1]

\* The world main.rs builds: every actor on a Ground tile of its own, the
\* player tangible and with a Fov, no goal and no path yet.  The player
\* starts on the last tile of the board, and Dir::all() lists the
\* orthogonal directions first.
Init ==
  /\ mode = "game"
  /\ AStarIdle
  /\ FovIdle
  /\ dirs = OrthoFirst
  /\ ground \in Floors
  /\ pos \in [Ents -> ground]
  /\ pos[Player] = <<GridW - 1, GridH - 1>>
  /\ \A a, b \in Ents : a # b => pos[a] # pos[b]
  /\ \E cast \in Casts :
       /\ tangible = {Player} \cup {m \in Monsters : KindOf(cast, m).tangible}
       /\ fov = [e \in Ents |->
                   IF e = Player \/ KindOf(cast, e).sighted THEN NewFov ELSE NoFov]
       /\ pf = [m \in Monsters |-> PathfindNew(KindOf(cast, m).script)]
  /\ turnMode = "Waiting"
  /\ pc = "player_movement"
  /\ frame = 0
  /\ log = NoLog

Next == PlayerMovement \/ ProcessVisibility \/ Pathfind \/ EndTurn

Spec == Init /\ [][Next]_vars

----------------------------------------------------------------------------
(* The walk harness: one agent on a static floor walks to a fixed goal,    *)
(* next_pos being called once per tick and the agent moved to each cell it *)
(* returns.  The agent starts on a Ground tile of the first column; the    *)
(* goal is any tile of the last column, Wall tiles included, or the start  *)
(* itself.  The history records the goal, the cells visited so far, the    *)
(* position the last call was made at and what it returned.                *)

Walker == 1

WalkBoard == (0 .. WalkW - 1) \X (0 .. WalkH - 1)

InitWalk ==
  /\ mode = "walk"
  /\ AStarIdle
  /\ FovIdle
  /\ dirs \in DirOrders
  /\ ground \in {WalkBoard \ w : w \in UpTo(WalkBoard, WalkMaxWalls)}
  /\ \E start \in {s \in ground : s[1] = 0} :
     \E goal \in {g \in WalkBoard : g[1] = WalkW - 1} \cup {start} :
       /\ pos = [e \in {Walker} |-> start]
       /\ pf = [e \in {Walker} |-> [PathfindNew(<<>>) EXCEPT !.goal = goal]]
       /\ log = [goal |-> goal, trail |-> <<start>>, calls |-> 0,
                 at |-> start, ret |-> NoPoint, repaths |-> 0]
  /\ tangible = {Walker}
  /\ fov = [e \in {Walker} |-> NoFov]
  /\ turnMode = "Running"
  /\ pc = "walk"
  /\ frame = 0

\* The state one tick of the walk leaves, np being what next_pos returned.
Walked(np) ==
  /\ pf' = [pf EXCEPT ![Walker] = np.self]
  /\ pos' = [pos EXCEPT ![Walker] = IF np.next = NoPoint THEN @ ELSE np.next]
  /\ log' = [log EXCEPT !.trail = IF np.next = NoPoint THEN @ ELSE Append(@, np.next),
                        !.calls = @ + 1,
                        !.at = pos[Walker],
                        !.ret = np.next,
                        !.repaths = @ + (IF np.repathed THEN 1 ELSE 0)]

\* One tick of the walk: next_pos, and the move to the cell it returns.
WalkStep ==
  /\ mode = "walk"
  /\ pf[Walker].goal # NoPoint
  /\ Walked(NextPos(pf[Walker], pos[Walker]))
  /\ UNCHANGED <<mode, dirs, aVars, fVars, ground, tangible, fov, turnMode, pc, frame>>

NextWalk == WalkStep

SpecWalk == InitWalk /\ [][NextWalk]_vars

----------------------------------------------------------------------------
(* The blocked-walk harness: the walk harness with a second entity, the    *)
(* Statue, which has a Position and no Pathfind and so never moves.  Each  *)
(* tick runs the pathfind system on the one agent: refresh_goal (the       *)
(* script is empty, so the goal is the one set at the start until next_pos *)
(* clears it), the occupancy set from every Position, next_pos and the     *)
(* resolution loop.  The history records the goal, the number of ticks,    *)
(* what the last tick did, the position the agent had in the first tick    *)
(* whose candidate was the Statue's cell (stuck), and the position and the *)
(* number of the first tick whose candidate was the Statue's cell and      *)
(* whose replanned path leads through that cell again (fixed, fixedAt).    *)

Statue == 2

MaxTicks == 6

InitBlock ==
  /\ mode = "block"
  /\ AStarIdle
  /\ FovIdle
  /\ dirs \in DirOrders
  /\ ground \in {WalkBoard \ w : w \in UpTo(WalkBoard, WalkMaxWalls)}
  /\ \E start \in {s \in ground : s[1] = 0} :
     \E goal \in {g \in ground : g[1] = WalkW - 1} :
     \E statue \in ground \ {start} :
       /\ pos = [e \in {Walker, Statue} |-> IF e = Walker THEN start ELSE statue]
       /\ pf = [e \in {Walker} |-> [PathfindNew(<<>>) EXCEPT !.goal = goal]]
       /\ log = [goal |-> goal, ticks |-> 0, stuck |-> NoPoint,
                 fixed |-> NoPoint, fixedAt |-> 0, last |-> Untouched]
  /\ tangible = {Walker, Statue}
  /\ fov = [e \in {Walker, Statue} |-> NoFov]
  /\ turnMode = "Running"
  /\ pc = "block"
  /\ frame = 0

\* Whether the path leads from the agent's cell to the Statue's next.
ThroughStatue(path) ==
  /\ Len(path) >= 2
  /\ Last(path) = pos[Walker]
  /\ path[Len(path) - 1] = pos[Statue]

\* The state the movement phase leaves, w being its outcome.
Blocked(w) ==
  /\ pos' = w.pos
  /\ pf' = w.pf
  /\ log' = [log EXCEPT !.ticks = @ + 1,
                        !.last = w.log[Walker],
                        !.stuck = IF @ = NoPoint /\ w.log[Walker].cand = pos[Statue]
                                    THEN pos[Walker] ELSE @,
                        !.fixed = IF /\ @ = NoPoint
                                     /\ w.log[Walker].cand = pos[Statue]
                                     /\ ThroughStatue(w.pf[Walker].path)
                                    THEN pos[Walker] ELSE @,
                        !.fixedAt = IF /\ log.fixed = NoPoint
                                       /\ w.log[Walker].cand = pos[Statue]
                                       /\ ThroughStatue(w.pf[Walker].path)
                                      THEN log.ticks + 1 ELSE @]

\* One tick of pathfind with the Statue on the floor.
BlockStep ==
  /\ mode = "block"
  /\ log.ticks < MaxTicks
  /\ pf[Walker].goal # NoPoint
  /\ Blocked(StepAgent([pos |-> pos,
                        pf |-> [e \in {Walker} |->
                                  RefreshGoal(pf[e], e, NoPoint)],
                        occupied |-> {pos[e] : e \in {Walker, Statue}},
                        log |-> [e \in {Walker} |-> Untouched]], Walker))
  /\ UNCHANGED <<mode, dirs, aVars, fVars, ground, tangible, fov, turnMode, pc, frame>>

NextBlock == BlockStep

SpecBlock == InitBlock /\ [][NextBlock]_vars

----------------------------------------------------------------------------
(* Properties of the game (checked under Spec).                            *)

\* A frame has ended: end_turn has run and the next frame has not begun.
TickEnded == mode = "game" /\ pc = "player_movement" /\ frame > 0

\* The pathfind system has just run its two phases.
PathfindRan == mode = "game" /\ pc = "end_turn" /\ log.ran

\* C1: over any sequence of ticks from a state in which the tangible
\* actors hold pairwise distinct cells, no two tangible actors, the player
\* included, hold the same cell at the end of a tick.
C1_DistinctCells ==
  TickEnded => \A a, b \in tangible : a # b => pos[a] # pos[b]

\* The same for the tangible Pathfind agents alone.
AgentsDistinct ==
  TickEnded => \A a, b \in tangible \ {Player} : a # b => pos[a] # pos[b]

\* Two tangible agents got the same candidate cell from next_pos.
SameCandidate(a, b) ==
  /\ a # b
  /\ {a, b} \subseteq tangible
  /\ log.agents[a].cand # NoPoint
  /\ log.agents[a].cand = log.agents[b].cand

\* C2: when two tangible agents both obtain the same candidate cell from
\* next_pos in one tick, after the movement phase at most one of them is on
\* that cell, and the other is on its previous position or on a different
\* cell adjacent to its previous position.
C2_Contention ==
  PathfindRan =>
    \A a, b \in Monsters :
      SameCandidate(a, b) =>
        LET c == log.agents[a].cand
        IN /\ ~(pos[a] = c /\ pos[b] = c)
           /\ \A x \in {a, b} :
                pos[x] # c =>
                  \/ pos[x] = log.agents[x].from
                  \/ PSub(pos[x], log.agents[x].from) \in Dirs8

\* Two tangible agents contended for a cell, the first took it and the
\* second stayed where it was.
C2_Witness ==
  /\ PathfindRan
  /\ \E a, b \in Monsters :
       /\ a < b
       /\ SameCandidate(a, b)
       /\ pos[a] = log.agents[a].cand
       /\ log.agents[a].from # pos[a]
       /\ pos[b] = log.agents[b].from

----------------------------------------------------------------------------
(* Properties of a walk (checked under SpecWalk).                          *)

Walking == mode = "walk"

\* Manhattan distance from p to the goal of the walk.
ToGoal(p) == Manhattan(PSub(p, log.goal))

NoRepeat(s) == \A i, j \in 1 .. Len(s) : i # j => s[i] # s[j]

\* The cells next_pos has returned so far.
Yielded == Tail(log.trail)

\* The statement of C3 as the specification has it: the cells next_pos
\* yields are strictly closer and closer to the goal in Manhattan distance,
\* none is yielded twice, and None is returned exactly when the goal has
\* been reached.
C3_Original ==
  Walking =>
    /\ \A i \in 1 .. Len(Yielded) - 1 : ToGoal(Yielded[i + 1]) < ToGoal(Yielded[i])
    /\ NoRepeat(Yielded)
    /\ log.calls > 0 => (log.ret = NoPoint <=> log.at = log.goal)

\* C3: next_pos, called once per tick with the agent moved to each returned
\* cell, a fixed goal and a static floor, yields Ground cells one unit step
\* apart from the cell before, never visits a cell twice, and returns None
\* exactly when the agent is on the goal or the goal cannot be reached from
\* where it is; on a floor without walls the Manhattan distance to the goal
\* strictly decreases at every step.
C3_Walk ==
  Walking =>
    /\ \A i \in 1 .. Len(log.trail) - 1 :
         /\ PSub(log.trail[i + 1], log.trail[i]) \in Dirs8
         /\ log.trail[i + 1] \in ground
    /\ NoRepeat(log.trail)
    /\ log.calls > 0 =>
         (log.ret = NoPoint <=>
            \/ log.at = log.goal
            \/ ~Reachable(log.at, log.goal, ground))
    /\ ground = WalkBoard =>
         \A i \in 1 .. Len(log.trail) - 1 :
           ToGoal(log.trail[i + 1]) < ToGoal(log.trail[i])

\* A walk around walls that ended on the goal, one of whose steps did not
\* bring the agent closer to the goal.
C3_Witness ==
  /\ Walking
  /\ log.calls > 0
  /\ log.ret = NoPoint
  /\ log.at = log.goal
  /\ Len(Yielded) >= 3
  /\ \E i \in 1 .. Len(Yielded) - 1 : ToGoal(Yielded[i + 1]) >= ToGoal(Yielded[i])

----------------------------------------------------------------------------
(* Properties of refresh_goal (checked under Spec on the refresh phase of  *)
(* the tick pathfind has just run).                                        *)

\* No tactic agent m's refresh_goal asked yielded a goal.
NoneYielded(m) == \A k \in DOMAIN log.asked[m] : log.asked[m][k].goal = NoPoint

\* The refresh_goal of agent m adopted a goal: the last tactic it asked
\* yielded one.
Adopted(m) == log.asked[m] # <<>> /\ Last(log.asked[m]).goal # NoPoint

\* C12 as stated: after a refresh_goal call in which no tactic yields a
\* goal the goal is None, whether or not a goal was held before.
C12_Original ==
  PathfindRan =>
    \A m \in Monsters : NoneYielded(m) => log.refreshed[m].goal = NoPoint

\* C12 (amended): a refresh_goal call in which no tactic yields a goal
\* leaves the goal and the cached path as they were: None stays None and a
\* held goal stays held.
C12_GoalKept ==
  PathfindRan =>
    \A m \in Monsters :
      NoneYielded(m) =>
        /\ log.refreshed[m].goal = log.before[m].goal
        /\ log.refreshed[m].path = log.before[m].path

\* An agent that held a goal asked a tactic, which yielded none.
C12_Witness ==
  /\ PathfindRan
  /\ \E m \in Monsters :
       /\ NoneYielded(m)
       /\ log.asked[m] # <<>>
       /\ log.before[m].goal # NoPoint

\* Tactic i of agent m's script may be asked in this refresh_goal call: the
\* agent held no goal, or the tactic is a Chase, the one run_always tactic.
Eligible(m, i) ==
  log.before[m].goal = NoPoint \/ log.before[m].script[i].kind = "Chase"

AskedIndex(m, i) == \E k \in DOMAIN log.asked[m] : log.asked[m][k].i = i

\* C13: refresh_goal asks the tactics in script order; it asks no tactic
\* whose run_always() is false while a goal is set, so a script of Wanders
\* alone keeps its goal; it adopts the goal of the first asked tactic that
\* yields one and asks no tactic after it; and it passes over a tactic it
\* may ask only after a goal was adopted.
C13_ScriptOrder ==
  PathfindRan =>
    \A m \in Monsters :
      /\ \A k \in 1 .. Len(log.asked[m]) - 1 :
           /\ log.asked[m][k].i < log.asked[m][k + 1].i
           /\ log.asked[m][k].goal = NoPoint
      /\ \A k \in DOMAIN log.asked[m] :
           /\ log.asked[m][k].i \in DOMAIN log.before[m].script
           /\ Eligible(m, log.asked[m][k].i)
      /\ Adopted(m) => log.refreshed[m].goal = Last(log.asked[m]).goal
      /\ \A i \in DOMAIN log.before[m].script :
           (Eligible(m, i) /\ ~AskedIndex(m, i)) =>
             (Adopted(m) /\ Last(log.asked[m]).i < i)
      /\ (log.before[m].goal # NoPoint
            /\ \A i \in DOMAIN log.before[m].script :
                 log.before[m].script[i].kind = "Wander")
           => (log.asked[m] = <<>> /\ log.refreshed[m] = log.before[m])

\* An agent with the script [Chase, Wander] that held a goal: its Chase was
\* asked and yielded none, and its Wander was not asked.
C13_Witness ==
  /\ PathfindRan
  /\ \E m \in Monsters :
       /\ Len(log.before[m].script) = 2
       /\ log.before[m].goal # NoPoint
       /\ log.asked[m] = <<[i |-> 1, goal |-> NoPoint]>>

\* An agent without a goal whose Chase yielded none and whose Wander, asked
\* next, yielded the goal adopted.
C13_SecondAsked ==
  /\ PathfindRan
  /\ \E m \in Monsters :
       /\ Len(log.asked[m]) = 2
       /\ log.refreshed[m].goal = log.asked[m][2].goal

\* C14: when refresh_goal adopts a goal that differs from the goal held
\* before the call (none held included), the cached path is emptied, and
\* the next_pos call that follows runs repath unless the agent stands on
\* the goal; when the adopted goal equals the held goal, the cached path is
\* left unchanged.
C14_PathInvalidated ==
  PathfindRan =>
    \A m \in Monsters :
      Adopted(m) =>
        IF log.refreshed[m].goal # log.before[m].goal
          THEN /\ log.refreshed[m].path = <<>>
               /\ log.refreshed[m].goal # log.agents[m].from
                    => log.agents[m].repathed
          ELSE log.refreshed[m].path = log.before[m].path

\* An agent with a cached path adopted a goal other than the one it held,
\* and the path was emptied.
C14_Witness ==
  /\ PathfindRan
  /\ \E m \in Monsters :
       /\ Adopted(m)
       /\ log.before[m].goal # NoPoint
       /\ log.before[m].path # <<>>
       /\ log.refreshed[m].goal # log.before[m].goal
       /\ log.refreshed[m].path = <<>>

\* An agent with a cached path adopted the goal it already held.
C14_SameGoal ==
  /\ PathfindRan
  /\ \E m \in Monsters :
       /\ Adopted(m)
       /\ log.before[m].path # <<>>
       /\ log.refreshed[m].goal = log.before[m].goal

----------------------------------------------------------------------------
(* Properties of next_pos (checked under Spec on the movement phase of the *)
(* tick pathfind has just run).                                            *)

\* Agent m's next_pos was called with no goal, or with the goal equal to
\* the agent's position.
NothingToDo(m) ==
  log.goals[m] = NoPoint \/ log.goals[m] = log.agents[m].from

\* C15: called with no goal set or with the goal equal to the current
\* position, next_pos returns None and leaves the goal cleared, without
\* running A*: the cached path is untouched and the agent stays.
C15_EarlyReturn ==
  PathfindRan =>
    \A m \in Monsters :
      NothingToDo(m) =>
        /\ log.agents[m].cand = NoPoint
        /\ pf[m].goal = NoPoint
        /\ ~log.agents[m].repathed
        /\ log.agents[m].replans = 0
        /\ pf[m].path = log.refreshed[m].path
        /\ pos[m] = log.agents[m].from

\* An agent whose goal was the cell it stood on, with a path cached.
C15_Witness ==
  /\ PathfindRan
  /\ \E m \in Monsters :
       /\ log.goals[m] = log.agents[m].from
       /\ log.refreshed[m].path # <<>>
       /\ pf[m].goal = NoPoint

\* An agent called without a goal: its tactics were asked and yielded none.
C15_NoGoal ==
  /\ PathfindRan
  /\ \E m \in Monsters :
       /\ log.goals[m] = NoPoint
       /\ log.asked[m] # <<>>

\* Agent m's next_pos was called with a goal that no chain of unit steps
\* over Ground tiles reaches from the agent's position.
Unreachable(m) ==
  /\ log.goals[m] # NoPoint
  /\ ~Reachable(log.agents[m].from, log.goals[m], ground)

\* C16: called with a goal unreachable from the current position over
\* Ground tiles, next_pos returns None, leaves the cached path empty and
\* clears the goal, and the agent stays where it is; an agent that enters
\* refresh_goal without a goal has the first tactic of its script asked.
C16_UnreachableGoal ==
  PathfindRan =>
    \A m \in Monsters :
      /\ Unreachable(m) =>
           /\ log.agents[m].cand = NoPoint
           /\ pf[m].path = <<>>
           /\ pf[m].goal = NoPoint
           /\ log.agents[m].attempts = 0
           /\ pos[m] = log.agents[m].from
      /\ (log.before[m].goal = NoPoint /\ log.before[m].script # <<>>) =>
           (log.asked[m] # <<>> /\ log.asked[m][1].i = 1)

\* An agent whose goal was unreachable ran repath in next_pos and ended the
\* tick without a goal.
C16_Witness ==
  /\ PathfindRan
  /\ \E m \in Monsters :
       /\ Unreachable(m)
       /\ log.agents[m].repathed
       /\ pf[m].goal = NoPoint

----------------------------------------------------------------------------
(* Properties of the pathfind system and of the turn gate (checked under   *)
(* Spec).                                                                  *)

\* The positions the tangible entities had when the movement phase began.
TangibleCells ==
  {pos[Player]} \cup {log.agents[m].from : m \in Monsters \cap tangible}

\* The cells held by intangible entities alone when the movement phase
\* began.
GhostCells == {log.agents[m].from : m \in Monsters \ tangible} \ TangibleCells

\* C17: the occupancy set the movement phase starts from holds the
\* positions of the tangible entities and no other cell, and no agent is
\* kept from a walkable candidate that only intangible entities hold.
C17_TangibleOnly ==
  PathfindRan =>
    /\ log.occupied = TangibleCells
    /\ \A m \in Monsters :
         (log.agents[m].cand \in GhostCells /\ log.agents[m].cand \in ground)
           => pos[m] = log.agents[m].cand

\* C18: when the turn mode is Waiting the pathfind system changes nothing:
\* positions, goals, cached paths and tactics (the target a Chase tracks
\* included), and the floor, the Fovs and the turn mode, are the same after
\* the call as before.
C18_WaitingIdle ==
  [][(mode = "game" /\ pc = "pathfind" /\ turnMode = "Waiting")
       => /\ pc' = "end_turn"
          /\ UNCHANGED <<pos, pf, ground, tangible, fov, turnMode>>]_vars

\* pathfind has just returned at once in a frame without a player action,
\* with an agent that holds a goal, a cached path and a Chase target.
C18_Witness ==
  /\ mode = "game"
  /\ pc = "end_turn"
  /\ turnMode = "Waiting"
  /\ ~log.ran
  /\ \E m \in Monsters :
       /\ pf[m].goal # NoPoint
       /\ pf[m].goal # pos[m]
       /\ pf[m].path # <<>>
       /\ \E i \in DOMAIN pf[m].script : pf[m].script[i].target = Player

\* The player has just stepped onto a tile that is neither Wall nor Void.
PlayerStepped ==
  /\ PSub(pos'[Player], pos[Player]) \in Dirs8
  /\ TileAt(pos'[Player]) \notin {"Wall", "Void"}

\* What C19 says of one step of the frame loop.
TurnGate ==
  mode = "game" =>
    /\ (pc = "player_movement" /\ pc' # pc) =>
         /\ turnMode = "Waiting"
         /\ turnMode' = "Running" =>
              /\ ~log'.shifted
              /\ PlayerStepped \/ (pos' = pos /\ log'.wait)
         /\ turnMode' # "Running" => (turnMode' = "Waiting" /\ pos' = pos)
    /\ (pc = "end_turn" /\ pc' # pc) =>
         (turnMode' = "Waiting" /\ frame' = frame + 1 /\ pc' = "player_movement")
    /\ pc \in {"process_visibility", "pathfind"} =>
         (turnMode' = turnMode /\ frame' = frame)
    /\ (pc = "pathfind" /\ pc' # pc) => pc' = "end_turn"
    /\ \A m \in Monsters :
         pos'[m] # pos[m] =>
           /\ pc = "pathfind"
           /\ turnMode = "Running"
           /\ PSub(pos'[m], pos[m]) \in Dirs8

C19_NoAction ==
  /\ mode = "game"
  /\ pc = "process_visibility"
  /\ turnMode = "Waiting"
  /\ ~log.wait

\* C20: the pathfind system runs a bounded amount of work per agent and
\* tick: at most 3 resolution attempts and at most 3 forced replans (none
\* without a candidate; with one, either fewer than 3 replans followed by
\* the attempt that moved the agent, or 3 attempts that all ended in a
\* replan), hence at most 4 A* searches, the one of next_pos included.
C20_BoundedRetries ==
  PathfindRan =>
    \A m \in Monsters :
      /\ log.agents[m].attempts \in 0 .. 3
      /\ log.agents[m].replans \in 0 .. 3
      /\ log.agents[m].replans + (IF log.agents[m].repathed THEN 1 ELSE 0) <= 4
      /\ IF log.agents[m].cand = NoPoint
           THEN log.agents[m].attempts = 0 /\ log.agents[m].replans = 0
           ELSE IF pos[m] # log.agents[m].from
                  THEN log.agents[m].attempts = log.agents[m].replans + 1
                  ELSE log.agents[m].attempts = 3 /\ log.agents[m].replans = 3

\* A tick in which two agents contended for one cell and the loser used up
\* its 3 attempts and 3 replans.
C20_Witness ==
  /\ PathfindRan
  /\ \E a, b \in Monsters :
       /\ a # b
       /\ log.agents[a].cand = log.agents[b].cand
       /\ pos[a] = log.agents[a].cand
       /\ log.agents[b].attempts = 3
       /\ log.agents[b].replans = 3

\* All 3 resolution attempts of agent m failed in the tick just run.
AllFailed(m) == log.agents[m].replans = 3

\* C21: when all 3 resolution attempts of an agent fail in a tick, its slot
\* leaves its position and the occupancy set unchanged, its goal is the one
\* it had after the refresh phase, and its cached path runs from that goal
\* to its position: the last element is the position.
C21_FailedSlot ==
  PathfindRan =>
    \A m \in Monsters :
      AllFailed(m) =>
        /\ pos[m] = log.agents[m].from
        /\ log.agents[m].occOut = log.agents[m].occIn
        /\ pf[m].goal # NoPoint
        /\ pf[m].goal = log.goals[m]
        /\ pf[m].path # <<>>
        /\ Last(pf[m].path) = pos[m]
        /\ pf[m].path[1] = pf[m].goal

\* An agent more than one step from its goal failed 3 times.
C21_Witness ==
  /\ PathfindRan
  /\ \E m \in Monsters : AllFailed(m) /\ Len(pf[m].path) >= 3

\* The candidate of agent m is a Ground cell no entity held when the
\* movement phase began.
FreeCandidate(m) ==
  /\ log.agents[m].cand # NoPoint
  /\ log.agents[m].cand \in ground
  /\ log.agents[m].cand \notin log.occupied

\* Agents a and b, a processed first, got the same free candidate.
Coincide(a, b) ==
  a < b /\ FreeCandidate(a) /\ log.agents[a].cand = log.agents[b].cand

\* C22 as stated: when the candidates of several agents coincide on a free
\* walkable cell, the agent processed first commits the move and every
\* later contender ends the tick on its previous position.
C22_Original ==
  PathfindRan =>
    \A a, b \in Monsters :
      Coincide(a, b) =>
        /\ (\A c \in Monsters : c < a => log.agents[c].cand # log.agents[a].cand)
             => pos[a] = log.agents[a].cand
        /\ pos[b] = log.agents[b].from

\* C22 (amended): an agent whose candidate is a free walkable cell commits
\* the move exactly when no tangible agent processed before it had the same
\* candidate, and otherwise ends the tick on its previous position: the
\* first contender commits, the contenders after the first tangible one
\* stay, and a contender that follows intangible ones alone commits too.
C22_Priority ==
  PathfindRan =>
    \A b \in Monsters :
      FreeCandidate(b) =>
        IF \E a \in Monsters \cap tangible :
             a < b /\ log.agents[a].cand = log.agents[b].cand
          THEN pos[b] = log.agents[b].from
          ELSE pos[b] = log.agents[b].cand

\* A tangible agent took the free cell an intangible agent processed after
\* it wanted too, and the intangible one stayed.
C22_Witness ==
  /\ PathfindRan
  /\ \E a, b \in Monsters :
       /\ Coincide(a, b)
       /\ a \in tangible
       /\ b \notin tangible
       /\ pos[a] = log.agents[a].cand
       /\ pos[b] = log.agents[b].from

\* An intangible agent and a tangible agent processed after it both moved
\* onto the free cell they wanted.
C22_BothMoved ==
  /\ PathfindRan
  /\ \E a, b \in Monsters :
       /\ Coincide(a, b)
       /\ a \notin tangible
       /\ pos[a] = log.agents[a].cand
       /\ pos[b] = log.agents[b].cand

\* The last tactic agent m's refresh_goal asked was a Chase that yielded the
\* goal adopted (read in the state after pathfind).
ChaseAdopted(m) ==
  /\ log'.asked[m] # <<>>
  /\ Last(log'.asked[m]).goal # NoPoint
  /\ pf[m].script[Last(log'.asked[m]).i].kind = "Chase"

\* What C23 says of a pathfind step in Running mode.
RefreshFirst ==
  (mode = "game" /\ pc = "pathfind" /\ turnMode = "Running") =>
    /\ log'.ran
    /\ log'.before = pf
    /\ pos'[Player] = pos[Player]
    /\ \A m \in Monsters :
         /\ log'.agents[m].from = pos[m]
         /\ ChaseAdopted(m) => log'.goals[m] = pos[Player]
         /\ (log'.goals[m] # NoPoint /\ log'.goals[m] # pos[m]
               /\ Reachable(pos[m], log'.goals[m], ground))
              => log'.agents[m].cand # NoPoint
         /\ log'.goals[m] = NoPoint => log'.agents[m].cand = NoPoint

\* C23: in one tick the goal-refresh phase changes no position and every
\* agent's slot of the movement phase starts from the position the agent
\* had before the tick and from the goal its refresh_goal left; a goal a
\* Chase yields is the position its target had before any agent moved.
C23_RefreshFirst == [][RefreshFirst]_vars

\* A tick in which the agent processed first moved and the Chase of the
\* agent processed after it yielded its goal.
C23_Witness ==
  /\ PathfindRan
  /\ \E a, b \in Monsters :
       /\ a < b
       /\ pos[a] # log.agents[a].from
       /\ Adopted(b)
       /\ log.before[b].script[Last(log.asked[b]).i].kind = "Chase"
       /\ log.agents[b].cand # NoPoint

----------------------------------------------------------------------------
(* Properties of process_visibility and of Chase (checked under Spec).     *)

\* What the milazzo call of process_visibility ignites for entity e.
Ignited(e) ==
  Milazzo(pos[e], fov[e].range, OpaqueNear(ground, pos[e], fov[e].range))

\* What C24 says of one step: a run of process_visibility makes visible the
\* set it ignites and adds that set to seen; no other step touches a Fov.
SeenAccumulates ==
  mode = "game" =>
    \A e \in Ents :
      /\ fov'[e].has = fov[e].has
      /\ fov[e].has =>
           /\ fov'[e].visible \subseteq fov'[e].seen
           /\ fov[e].seen \subseteq fov'[e].seen
           /\ IF pc = "process_visibility"
                THEN /\ fov'[e].visible = Ignited(e)
                     /\ fov'[e].seen = fov[e].seen \cup fov'[e].visible
                ELSE fov'[e] = fov[e]

\* C24: for every entity with a Fov, seen starts empty like visible and
\* every run of process_visibility sets visible to the set it ignites and
\* seen to the union of seen and that set, nothing else writing either; so
\* seen is the union of the visible sets produced so far, contains visible
\* and never loses a point.
C24_SeenAccumulates == [][SeenAccumulates]_vars

\* After a second run of process_visibility an entity remembers points it
\* does not see any more.
C24_Witness ==
  /\ mode = "game"
  /\ pc = "pathfind"
  /\ frame > 0
  /\ \E e \in Ents :
       /\ fov[e].has
       /\ fov[e].visible # {}
       /\ fov[e].visible # fov[e].seen
       /\ fov[e].visible \subseteq fov[e].seen

\* Every Fov starts with nothing visible and nothing seen.
FovStartsEmpty ==
  (mode = "game" /\ frame = 0 /\ pc = "player_movement") =>
    \A e \in Ents : fov[e].visible = {} /\ fov[e].seen = {}

\* The player is visible to agent m: its position is in the visible set of
\* the agent's Fov, or the agent has no Fov.
PlayerVisible(m) == ~fov[m].has \/ pos[Player] \in fov[m].visible

\* C25: a Chase asked by refresh_goal yields a goal only if the player is
\* visible to the chaser, and the goal is then the player's position and
\* the player the tracked target; when the player is not visible the Chase
\* yields none and holds no target afterwards, a target tracked before
\* being dropped.
C25_ChaseGoal ==
  PathfindRan =>
    \A m \in Monsters :
      \A k \in DOMAIN log.asked[m] :
        log.before[m].script[log.asked[m][k].i].kind = "Chase" =>
          IF PlayerVisible(m)
            THEN /\ log.asked[m][k].goal = pos[Player]
                 /\ log.refreshed[m].script[log.asked[m][k].i].target = Player
            ELSE /\ log.asked[m][k].goal = NoPoint
                 /\ log.refreshed[m].script[log.asked[m][k].i].target = NoEnt

\* A Chase that tracked the player lost sight of it and dropped it.
C25_Witness ==
  /\ PathfindRan
  /\ \E m \in Monsters :
       /\ fov[m].has
       /\ ~PlayerVisible(m)
       /\ \E k \in DOMAIN log.asked[m] :
            /\ log.before[m].script[log.asked[m][k].i] =
                 [kind |-> "Chase", target |-> Player]
            /\ log.refreshed[m].script[log.asked[m][k].i].target = NoEnt

\* A Chase with a Fov caught sight of the player and yielded its position.
C25_Sighted ==
  /\ PathfindRan
  /\ \E m \in Monsters :
       /\ fov[m].has
       /\ \E k \in DOMAIN log.asked[m] :
            /\ log.before[m].script[log.asked[m][k].i] =
                 [kind |-> "Chase", target |-> NoEnt]
            /\ log.asked[m][k].goal = pos[Player]

\* C27: whenever next_pos returns a point in a tick of the game, after the
\* refresh_goal, next_pos and repath calls of the ticks before, the point is
\* a Ground tile one of the 8 unit steps away from the position next_pos
\* was called with.
C27_UnitStepOnGround ==
  PathfindRan =>
    \A m \in Monsters :
      log.agents[m].cand # NoPoint =>
        /\ PSub(log.agents[m].cand, log.agents[m].from) \in Dirs8
        /\ TileAt(log.agents[m].cand) = "Ground"

\* next_pos returned a point from a path cached in an earlier tick.
C27_Witness ==
  /\ PathfindRan
  /\ frame > 0
  /\ \E m \in Monsters :
       /\ log.agents[m].cand # NoPoint
       /\ ~log.agents[m].repathed
       /\ log.before[m].path # <<>>

\* The tangible entities hold pairwise distinct cells in the positions q.
DistinctCells(q) == \A a, b \in tangible : a # b => q[a] # q[b]

\* C28: if all tangible entities hold pairwise distinct cells before the
\* pathfind system runs, they hold pairwise distinct cells after it.
C28_KeepsDistinct ==
  [][(mode = "game" /\ pc = "pathfind" /\ DistinctCells(pos))
       => DistinctCells(pos')]_vars

\* A tick that began with the tangible entities on distinct cells, in which
\* a tangible agent left its cell and a tangible agent processed after it
\* moved onto that cell.
C28_Witness ==
  /\ PathfindRan
  /\ DistinctCells([e \in Ents |->
                     IF e = Player THEN pos[e] ELSE log.agents[e].from])
  /\ \E a, b \in Monsters \cap tangible :
       /\ a < b
       /\ pos[a] # log.agents[a].from
       /\ pos[b] = log.agents[a].from

\* C30: in one tick an agent moves, if it moves, onto the cell its one
\* next_pos call returned, and it does so in its first resolution attempt;
\* an agent whose first attempt failed is on its previous position after
\* the tick, all 3 attempts having tested that cell and failed.
C30_CandidateFixed ==
  PathfindRan =>
    \A m \in Monsters :
      /\ pos[m] # log.agents[m].from =>
           /\ pos[m] = log.agents[m].cand
           /\ log.agents[m].attempts = 1
           /\ log.agents[m].replans = 0
      /\ log.agents[m].replans >= 1 =>
           /\ pos[m] = log.agents[m].from
           /\ log.agents[m].attempts = 3
           /\ log.agents[m].replans = 3
           /\ log.agents[m].cand \in log.agents[m].occOut

\* An agent next to the player, whose candidate was the player's cell,
\* replanned 3 times and stayed.
C30_Witness ==
  /\ PathfindRan
  /\ \E m \in Monsters :
       /\ log.agents[m].cand = pos[Player]
       /\ log.agents[m].replans = 3
       /\ pos[m] = log.agents[m].from

----------------------------------------------------------------------------
(* More properties of a walk (checked under SpecWalk).                     *)

\* C29: in a walk towards a goal that does not change, every returned cell
\* being moved to, next_pos runs A* in its first call and in no later call:
\* after any number of calls it has run once, and not at all when the walk
\* starts on its goal.
C29_OneSearch ==
  Walking =>
    /\ log.calls = 0 => log.repaths = 0
    /\ log.calls > 0 =>
         log.repaths = IF log.goal = log.trail[1] THEN 0 ELSE 1

\* A walk of three or more moves that has reached its goal and been told so,
\* after four or more calls of next_pos.
C29_Witness ==
  /\ Walking
  /\ log.calls >= 4
  /\ Len(log.trail) >= 4
  /\ Last(log.trail) = log.goal
  /\ pf[Walker].goal = NoPoint
  /\ log.repaths = 1

----------------------------------------------------------------------------
(* Properties of a blocked walk (checked under SpecBlock).                 *)

Blocking == mode = "block"

\* Whether a route over Ground tiles that avoids the Statue joins the
\* agent's position to its goal.
Detour == Reachable(pos[Walker], log.goal, ground \ {pos[Statue]})

\* C31 as stated: from the first tick in which the next cell of the
\* agent's path is the Statue's cell, the agent keeps its position for as
\* long as it keeps its goal.
C31_Original ==
  (Blocking /\ log.stuck # NoPoint /\ pf[Walker].goal = log.goal) =>
    pos[Walker] = log.stuck

\* C31, amended: from the first tick in which the next cell of the agent's
\* path is the Statue's cell and the path replanned from the agent's own
\* position leads through that cell again, the agent keeps its position,
\* its goal and that path on every later tick, whether or not a route over
\* free Ground tiles joins it to its goal.
C31_StuckOnOwnPath ==
  (Blocking /\ log.fixed # NoPoint) =>
    /\ pos[Walker] = log.fixed
    /\ pf[Walker].goal = log.goal
    /\ ThroughStatue(pf[Walker].path)
    /\ log.last.cand = pos[Statue]
    /\ log.last.replans = 3

\* The agent has stood for 3 ticks before the Statue, which is not on its
\* goal, although a route around the Statue exists.
C31_Witness ==
  /\ Blocking
  /\ log.fixed # NoPoint
  /\ log.ticks >= log.fixedAt + 2
  /\ pos[Statue] # log.goal
  /\ Detour

============================================================================
